---- MODULE Spec2Model ----
(***************************************************************************)
(* Checkout saga (CheckoutService.PlaceOrder) of online-boutique-arpc and  *)
(* the money arithmetic it depends on (IsValid, Sum, MultiplySlow, Must).  *)
(*                                                                         *)
(* Spec        : one PlaceOrder invocation, one step per collaborator call *)
(* SpecSum     : Sum applied to a bounded set of operands                  *)
(* SpecAssoc   : the two nestings of Sum over three operands               *)
(* SpecMul     : MultiplySlow                                              *)
(* SpecSign    : IsPositive and IsNegative                                 *)
(* SpecCarry   : carry of the currency service                             *)
(* SpecConvert : CurrencyService.Convert and the checkout's handling of it *)
(* SpecPay     : PaymentService.Charge and validateAndCharge               *)
(* SpecAny     : one PlaceOrder invocation, the currency service answering *)
(*               any Money; fout logs the answers                          *)
(* SpecConc    : PlaceOrder invocations of different users, interleaved    *)
(* SpecShared  : PlaceOrder invocations of one user and an AddItem beside  *)
(* SpecCart    : concurrent CartService.AddItem calls on the Redis store   *)
(* SpecLive    : one PlaceOrder invocation under weak fairness             *)
(***************************************************************************)
EXTENDS Integers, Sequences, FiniteSets, TLC

VARIABLES
    pc,                     \* position of the PlaceOrder invocation
    req,                    \* the PlaceOrderRequest
    cart,                   \* the user's cart in the cart service's store
    calls,                  \* collaborator calls made so far, with outcome
    cartItems,              \* result of getUserCart
    orderItems,             \* out[] of prepOrderItems
    product,                \* PriceUsd of the product fetched last
    shippingUSD,            \* result of quoteShipping
    shippingCostLocalized,  \* prep.shippingCostLocalized
    total,                  \* total, the amount handed to chargeCard
    txID,                   \* transaction id returned by chargeCard
    shippingTrackingID,     \* tracking id returned by shipOrder
    orderResult,            \* the OrderResult built after emptyUserCart
    resp,                   \* the returned *PlaceOrderResponse
    err,                    \* the returned error
    sl, sr,                 \* operands of Sum (SpecSum)
    sres,                   \* result of Sum (SpecSum)
    fin,                    \* arguments of the function applied
    fout                    \* what the function returned

vars == <<pc, req, cart, calls, cartItems, orderItems, product, shippingUSD,
          shippingCostLocalized, total, txID, shippingTrackingID, orderResult,
          resp, err, sl, sr, sres, fin, fout>>

orderVars == <<pc, req, cart, calls, cartItems, orderItems, product,
               shippingUSD, shippingCostLocalized, total, txID,
               shippingTrackingID, orderResult, resp, err>>

sumVars == <<sl, sr, sres, fin, fout>>

----------------------------------------------------------------------------
(* Bounds of the model *)

MaxCart == 2
MaxQty == 3

----------------------------------------------------------------------------
(* Money arithmetic *)

nanosMin == -999999999
nanosMax == 999999999
nanosMod == 1000000000

MinInt32 == -2147483647 - 1
MaxInt32 == 2147483647

Money(u, n, c) == [units |-> u, nanos |-> n, code |-> c]

\* &pb.Money{} : the zero value returned next to an error
EmptyMoney == Money(0, 0, "")

ErrNil == "nil"
ErrInvalidValue == "one of the specified money values is invalid"
ErrMismatchingCurrency == "mismatching currency codes"

signMatches(m) ==
    m.nanos = 0 \/ m.units = 0 \/ ((m.nanos < 0) = (m.units < 0))

validNanos(nanos) == nanosMin <= nanos /\ nanos <= nanosMax

IsValid(m) == signMatches(m) /\ validNanos(m.nanos)

IsZero(m) == m.units = 0 /\ m.nanos = 0

\* && binds tighter than || in Go
IsPositive(m) ==
    (IsValid(m) /\ m.units > 0) \/ (m.units = 0 /\ m.nanos > 0)

IsNegative(m) ==
    (IsValid(m) /\ m.units < 0) \/ (m.units = 0 /\ m.nanos < 0)

AreSameCurrency(l, r) == l.code = r.code /\ l.code # ""

\* Go's integer division and remainder truncate toward zero
GoDiv(a, b) == IF a >= 0 THEN a \div b ELSE -((-a) \div b)
GoRem(a, b) == IF a >= 0 THEN a % b ELSE -((-a) % b)

\* int32 addition and subtraction of nanosMod, wrapping modulo 2^32
AddMod32(n) ==
    IF n > MaxInt32 - nanosMod
    THEN ((n - MaxInt32) - 1147483649)
    ELSE n + nanosMod

SubMod32(n) ==
    IF n < MinInt32 + nanosMod
    THEN ((n + MaxInt32) + 1147483649)
    ELSE n - nanosMod

\* the normalisation of the raw sums <units, nanos> in Sum
SumNormalize(units, nanos) ==
    IF (units = 0 /\ nanos = 0) \/ (units > 0 /\ nanos >= 0)
          \/ (units < 0 /\ nanos <= 0)
    THEN [units |-> units + GoDiv(nanos, nanosMod),
          nanos |-> GoRem(nanos, nanosMod)]
    ELSE IF units > 0
         THEN [units |-> units - 1, nanos |-> AddMod32(nanos)]
         ELSE [units |-> units + 1, nanos |-> SubMod32(nanos)]

\* variant: the currency codes are compared before the validity check
SumCurrencyFirst(l, r) ==
    IF l.code # r.code
    THEN [m |-> EmptyMoney, err |-> ErrMismatchingCurrency]
    ELSE IF ~IsValid(l) \/ ~IsValid(r)
    THEN [m |-> EmptyMoney, err |-> ErrInvalidValue]
    ELSE LET n == SumNormalize(l.units + r.units, l.nanos + r.nanos)
         IN  [m |-> Money(n.units, n.nanos, l.code), err |-> ErrNil]

\* variant: only the left operand is validated
SumValidatesLeftOnly(l, r) ==
    IF ~IsValid(l)
    THEN [m |-> EmptyMoney, err |-> ErrInvalidValue]
    ELSE IF l.code # r.code
    THEN [m |-> EmptyMoney, err |-> ErrMismatchingCurrency]
    ELSE LET n == SumNormalize(l.units + r.units, l.nanos + r.nanos)
         IN  [m |-> Money(n.units, n.nanos, l.code), err |-> ErrNil]

\* variant: the units of the result are taken from the left operand twice
SumLeftTwice(l, r) ==
    IF ~IsValid(l) \/ ~IsValid(r)
    THEN [m |-> EmptyMoney, err |-> ErrInvalidValue]
    ELSE IF l.code # r.code
    THEN [m |-> EmptyMoney, err |-> ErrMismatchingCurrency]
    ELSE LET n == SumNormalize(l.units + l.units, l.nanos + r.nanos)
         IN  [m |-> Money(n.units, n.nanos, l.code), err |-> ErrNil]

\* variant: the currencies are compared with AreSameCurrency
SumRequiresCurrency(l, r) ==
    IF ~IsValid(l) \/ ~IsValid(r)
    THEN [m |-> EmptyMoney, err |-> ErrInvalidValue]
    ELSE IF ~AreSameCurrency(l, r)
    THEN [m |-> EmptyMoney, err |-> ErrMismatchingCurrency]
    ELSE LET n == SumNormalize(l.units + r.units, l.nanos + r.nanos)
         IN  [m |-> Money(n.units, n.nanos, l.code), err |-> ErrNil]

\* variant: the currency codes are not compared
SumAnyCurrency(l, r) ==
    IF ~IsValid(l) \/ ~IsValid(r)
    THEN [m |-> EmptyMoney, err |-> ErrInvalidValue]
    ELSE LET n == SumNormalize(l.units + r.units, l.nanos + r.nanos)
         IN  [m |-> Money(n.units, n.nanos, l.code), err |-> ErrNil]

\* Sum
Sum(l, r) ==
    IF ~IsValid(l) \/ ~IsValid(r)
    THEN [m |-> EmptyMoney, err |-> ErrInvalidValue]
    ELSE IF l.code # r.code
    THEN [m |-> EmptyMoney, err |-> ErrMismatchingCurrency]
    ELSE LET n == SumNormalize(l.units + r.units, l.nanos + r.nanos)
         IN  [m |-> Money(n.units, n.nanos, l.code), err |-> ErrNil]

\* variant: the error is dropped and the Money handed on
MustIgnoreError(s) ==
    [panic |-> FALSE, m |-> s.m]

\* Must: panics when the error is not nil
Must(s) ==
    IF s.err # ErrNil
    THEN [panic |-> TRUE, m |-> EmptyMoney]
    ELSE [panic |-> FALSE, m |-> s.m]

\* variant: the accumulator is added to itself
RECURSIVE MultiplyLoopDoubling(_, _, _)
MultiplyLoopDoubling(out, m, n) ==
    IF n > 1
    THEN LET s == Must(Sum(out, out))
         IN  IF s.panic THEN s ELSE MultiplyLoopDoubling(s.m, m, n - 1)
    ELSE [panic |-> FALSE, m |-> out]

RECURSIVE MultiplyLoop(_, _, _)
MultiplyLoop(out, m, n) ==
    IF n > 1
    THEN LET s == Must(Sum(out, m))
         IN  IF s.panic THEN s ELSE MultiplyLoop(s.m, m, n - 1)
    ELSE [panic |-> FALSE, m |-> out]

\* variant: the loop runs while n > 0
MultiplySlowOffByOne(m, n) ==
    MultiplyLoop(Money(m.units, m.nanos, m.code), m, n + 1)

\* variant: a multiplier of 0 gives the zero amount
MultiplySlowZeroTimes(m, n) ==
    IF n = 0 THEN [panic |-> FALSE, m |-> Money(0, 0, m.code)]
    ELSE MultiplyLoop(Money(m.units, m.nanos, m.code), m, n)

\* MultiplySlow
MultiplySlow(m, n) == MultiplyLoop(Money(m.units, m.nanos, m.code), m, n)

----------------------------------------------------------------------------
(* Values exchanged with the collaborators *)

ProductIds == {"A", "B"}
UserCurrencies == {"USD", "EUR"}

\* (units, nanos) amounts a collaborator may answer with
Amounts == { <<0, 0>>, <<0, 300000000>>, <<0, 500000000>>,
             <<8, 990000000>>, <<10, 0>> }

\* the catalog: Product.PriceUsd of every product
PriceUsd(id) ==
    IF id = "A" THEN Money(10, 0, "USD") ELSE Money(0, 500000000, "USD")

\* ShippingService.GetQuote answers createQuoteFromFloat(8.99) in USD
QuoteUsd == Money(8, 990000000, "USD")

TrackingIds == {"TR-1", "TR-2"}

CartItems == [productId : ProductIds, quantity : 1..MaxQty]

RECURSIVE SeqsUpTo(_, _)
SeqsUpTo(S, n) ==
    IF n = 0 THEN { <<>> }
    ELSE LET shorter == SeqsUpTo(S, n - 1)
         IN  shorter \cup { Append(q, x) : q \in { t \in shorter : Len(t) = n - 1 }, x \in S }

Carts == SeqsUpTo(CartItems, MaxCart)

NoMoney == Money(0, 0, "-")
NoErr == [code |-> "OK", msg |-> <<>>]
NoOrder == [orderId |-> "", shippingTrackingId |-> "",
            shippingCost |-> NoMoney, shippingAddress |-> "", items |-> <<>>]
NoResp == [nil |-> TRUE, order |-> NoOrder]

\* the context each wrapper hands to its client call: convertCurrency has
\* no ctx parameter and passes context.TODO()
CallCtx(op) == IF op = "Convert" THEN "context.TODO()" ELSE "ctx"

Call(op, idx, ok) == [op |-> op, idx |-> idx, ok |-> ok, ctx |-> CallCtx(op)]

\* the error a failing collaborator reports
Cause(op) == "rpc error: " \o op

\* status.Error(code, msg) returned by PlaceOrder
Status(code, msg) == [code |-> code, msg |-> msg]

----------------------------------------------------------------------------
(* total computation of PlaceOrder *)

RECURSIVE TotalLoop(_, _, _)
TotalLoop(t, items, k) ==
    IF k > Len(items)
    THEN [panic |-> FALSE, m |-> t]
    ELSE LET multPrice == MultiplySlow(items[k].cost, items[k].item.quantity)
         IN  IF multPrice.panic THEN multPrice
             ELSE LET s == Must(Sum(t, multPrice.m))
                  IN  IF s.panic THEN s ELSE TotalLoop(s.m, items, k + 1)

ComputeTotal(userCurrency, shipping, items) ==
    LET t0 == Must(Sum(Money(0, 0, userCurrency), shipping))
    IN  IF t0.panic THEN t0 ELSE TotalLoop(t0.m, items, 1)

----------------------------------------------------------------------------
(* One PlaceOrder invocation *)

Init ==
    /\ pc = "start"
    /\ req \in [userId : {"u1"}, userCurrency : UserCurrencies,
                address : {"addr"}, email : {"u1@example.com"}]
    /\ cart \in Carts
    /\ calls = <<>>
    /\ cartItems = <<>>
    /\ orderItems = <<>>
    /\ product = NoMoney
    /\ shippingUSD = NoMoney
    /\ shippingCostLocalized = NoMoney
    /\ total = NoMoney
    /\ txID = ""
    /\ shippingTrackingID = ""
    /\ orderResult = NoOrder
    /\ resp = NoResp
    /\ err = NoErr
    /\ sl = NoMoney
    /\ sr = NoMoney
    /\ sres = [m |-> NoMoney, err |-> "-"]
    /\ fin = <<>>
    /\ fout = <<>>

\* variant: an empty response is returned along with the error
FailWithResponse(e) ==
    /\ pc' = "done"
    /\ resp' = [nil |-> FALSE, order |-> NoOrder]
    /\ err' = e

\* return nil, ctx, <error>
Fail(e) ==
    /\ pc' = "done"
    /\ resp' = NoResp
    /\ err' = e

\* uuid.NewUUID()
NewOrderID ==
    /\ pc = "start"
    /\ \/ Fail(Status("Internal", <<"failed to generate order uuid">>))
       \/ /\ pc' = "getUserCart"
          /\ UNCHANGED <<resp, err>>
    /\ UNCHANGED <<req, cart, calls, cartItems, orderItems, product,
                   shippingUSD, shippingCostLocalized, total, txID,
                   shippingTrackingID, orderResult, sumVars>>

\* variant: reading the cart takes the items out of the store
GetUserCartTakes ==
    /\ pc = "getUserCart"
    /\ \E ok \in BOOLEAN :
         /\ calls' = Append(calls, Call("GetCart", 0, ok))
         /\ IF ok
            THEN /\ cartItems' = cart
                 /\ cart' = <<>>
                 /\ pc' = IF Len(cart) = 0 THEN "quoteShipping" ELSE "getProduct"
                 /\ UNCHANGED <<resp, err>>
            ELSE /\ Fail(Status("Internal",
                        <<"cart failure",
                          "failed to get user cart during checkout",
                          Cause("GetCart")>>))
                 /\ UNCHANGED <<cartItems, cart>>
    /\ UNCHANGED <<req, orderItems, product, shippingUSD,
                   shippingCostLocalized, total, txID, shippingTrackingID,
                   orderResult, sumVars>>

\* cs.getUserCart, first step of prepareOrderItemsAndShippingQuoteFromCart
GetUserCart ==
    /\ pc = "getUserCart"
    /\ \E ok \in BOOLEAN :
         /\ calls' = Append(calls, Call("GetCart", 0, ok))
         /\ IF ok
            THEN /\ cartItems' = cart
                 /\ pc' = IF Len(cart) = 0 THEN "quoteShipping" ELSE "getProduct"
                 /\ UNCHANGED <<resp, err>>
            ELSE /\ Fail(Status("Internal",
                        <<"cart failure",
                          "failed to get user cart during checkout",
                          Cause("GetCart")>>))
                 /\ UNCHANGED cartItems
    /\ UNCHANGED <<req, cart, orderItems, product, shippingUSD,
                   shippingCostLocalized, total, txID, shippingTrackingID,
                   orderResult, sumVars>>

\* variant: the error of GetProduct is not checked
GetProductIgnoreError ==
    /\ pc = "getProduct"
    /\ \E ok \in BOOLEAN :
         /\ calls' = Append(calls, Call("GetProduct", Len(orderItems) + 1, ok))
         /\ IF ok
            THEN product' =
                   PriceUsd(cartItems[Len(orderItems) + 1].productId)
            ELSE UNCHANGED product
    /\ pc' = "convertPrice"
    /\ UNCHANGED <<req, cart, cartItems, orderItems, shippingUSD,
                   shippingCostLocalized, total, txID, shippingTrackingID,
                   orderResult, resp, err, sumVars>>

\* prepOrderItems, loop body part 1: cl.GetProduct for item i
GetProduct ==
    /\ pc = "getProduct"
    /\ LET i == Len(orderItems) + 1
           item == cartItems[i]
       IN  \E ok \in BOOLEAN :
             /\ calls' = Append(calls, Call("GetProduct", i, ok))
             /\ IF ok
                THEN /\ product' = PriceUsd(item.productId)
                     /\ pc' = "convertPrice"
                     /\ UNCHANGED <<resp, err>>
                ELSE /\ Fail(Status("Internal",
                            <<"failed to prepare order",
                              "failed to get product #", item.productId>>))
                     /\ UNCHANGED product
    /\ UNCHANGED <<req, cart, cartItems, orderItems, shippingUSD,
                   shippingCostLocalized, total, txID, shippingTrackingID,
                   orderResult, sumVars>>

\* variant: the error names the product of the first cart item
ConvertPriceNamesFirstItem ==
    /\ pc = "convertPrice"
    /\ LET i == Len(orderItems) + 1
           item == cartItems[i]
       IN  \E ok \in BOOLEAN :
             /\ calls' = Append(calls, Call("Convert", i, ok))
             /\ IF ok
                THEN /\ \E a \in Amounts :
                          orderItems' = Append(orderItems,
                              [item |-> item,
                               cost |-> Money(a[1], a[2], req.userCurrency)])
                     /\ pc' = IF i = Len(cartItems) THEN "quoteShipping"
                                                    ELSE "getProduct"
                     /\ UNCHANGED <<resp, err>>
                ELSE /\ Fail(Status("Internal",
                            <<"failed to prepare order",
                              "failed to convert price of",
                              cartItems[1].productId,
                              "to", req.userCurrency>>))
                     /\ UNCHANGED orderItems
    /\ UNCHANGED <<req, cart, cartItems, product, shippingUSD,
                   shippingCostLocalized, total, txID, shippingTrackingID,
                   orderResult, sumVars>>

\* prepOrderItems, loop body part 2: cs.convertCurrency of the price
ConvertPrice ==
    /\ pc = "convertPrice"
    /\ LET i == Len(orderItems) + 1
           item == cartItems[i]
       IN  \E ok \in BOOLEAN :
             /\ calls' = Append(calls, Call("Convert", i, ok))
             /\ IF ok
                THEN /\ \E a \in Amounts :
                          orderItems' = Append(orderItems,
                              [item |-> item,
                               cost |-> Money(a[1], a[2], req.userCurrency)])
                     /\ pc' = IF i = Len(cartItems) THEN "quoteShipping"
                                                    ELSE "getProduct"
                     /\ UNCHANGED <<resp, err>>
                ELSE /\ Fail(Status("Internal",
                            <<"failed to prepare order",
                              "failed to convert price of", item.productId,
                              "to", req.userCurrency>>))
                     /\ UNCHANGED orderItems
    /\ UNCHANGED <<req, cart, cartItems, product, shippingUSD,
                   shippingCostLocalized, total, txID, shippingTrackingID,
                   orderResult, sumVars>>

\* cs.quoteShipping
QuoteShipping ==
    /\ pc = "quoteShipping"
    /\ \E ok \in BOOLEAN :
         /\ calls' = Append(calls, Call("GetQuote", 0, ok))
         /\ IF ok
            THEN /\ shippingUSD' = QuoteUsd
                 /\ pc' = "convertShipping"
                 /\ UNCHANGED <<resp, err>>
            ELSE /\ Fail(Status("Internal",
                        <<"shipping quote failure",
                          "failed to get shipping quote",
                          Cause("GetQuote")>>))
                 /\ UNCHANGED shippingUSD
    /\ UNCHANGED <<req, cart, cartItems, orderItems, product,
                   shippingCostLocalized, total, txID, shippingTrackingID,
                   orderResult, sumVars>>

\* variant: the error of the shipping-cost conversion is not checked
ConvertShippingIgnoreError ==
    /\ pc = "convertShipping"
    /\ \E ok \in BOOLEAN :
         /\ calls' = Append(calls, Call("Convert", 0, ok))
         /\ \E a \in Amounts :
              shippingCostLocalized' = Money(a[1], a[2], req.userCurrency)
    /\ pc' = "total"
    /\ UNCHANGED <<req, cart, cartItems, orderItems, product, shippingUSD,
                   total, txID, shippingTrackingID, orderResult, resp, err,
                   sumVars>>

\* cs.convertCurrency(shippingUSD, userCurrency)
ConvertShipping ==
    /\ pc = "convertShipping"
    /\ \E ok \in BOOLEAN :
         /\ calls' = Append(calls, Call("Convert", 0, ok))
         /\ IF ok
            THEN /\ \E a \in Amounts :
                      shippingCostLocalized' =
                          Money(a[1], a[2], req.userCurrency)
                 /\ pc' = "total"
                 /\ UNCHANGED <<resp, err>>
            ELSE /\ Fail(Status("Internal",
                        <<"failed to convert shipping cost to currency",
                          "failed to convert currency",
                          Cause("Convert")>>))
                 /\ UNCHANGED shippingCostLocalized
    /\ UNCHANGED <<req, cart, cartItems, orderItems, product, shippingUSD,
                   total, txID, shippingTrackingID, orderResult, sumVars>>

\* variant: the order is shipped right after the total is computed
SumTotalShipFirst ==
    /\ pc = "total"
    /\ LET t == ComputeTotal(req.userCurrency, shippingCostLocalized,
                             orderItems)
       IN  IF t.panic
           THEN /\ pc' = "panic"
                /\ UNCHANGED total
           ELSE /\ pc' = "shipOrder"
                /\ total' = t.m
    /\ UNCHANGED <<req, cart, calls, cartItems, orderItems, product,
                   shippingUSD, shippingCostLocalized, txID,
                   shippingTrackingID, orderResult, resp, err, sumVars>>

\* variant: the loop of MultiplySlow does not count n down, so it spins
\* for an item of quantity above 1
SumTotalSpins ==
    /\ pc = "total"
    /\ IF \E k \in 1..Len(orderItems) : orderItems[k].item.quantity > 1
       THEN UNCHANGED <<pc, total>>
       ELSE LET t == ComputeTotal(req.userCurrency, shippingCostLocalized,
                                  orderItems)
            IN  IF t.panic
                THEN /\ pc' = "panic"
                     /\ UNCHANGED total
                ELSE /\ pc' = "chargeCard"
                     /\ total' = t.m
    /\ UNCHANGED <<req, cart, calls, cartItems, orderItems, product,
                   shippingUSD, shippingCostLocalized, txID,
                   shippingTrackingID, orderResult, resp, err, sumVars>>

\* total := Must(Sum(...)) over the shipping cost and the items
SumTotal ==
    /\ pc = "total"
    /\ LET t == ComputeTotal(req.userCurrency, shippingCostLocalized,
                             orderItems)
       IN  IF t.panic
           THEN /\ pc' = "panic"
                /\ UNCHANGED total
           ELSE /\ pc' = "chargeCard"
                /\ total' = t.m
    /\ UNCHANGED <<req, cart, calls, cartItems, orderItems, product,
                   shippingUSD, shippingCostLocalized, txID,
                   shippingTrackingID, orderResult, resp, err, sumVars>>

\* variant: the error of chargeCard is not checked
ChargeCardIgnoreError ==
    /\ pc = "chargeCard"
    /\ \E ok \in BOOLEAN :
         /\ calls' = Append(calls, Call("Charge", 0, ok))
         /\ txID' = IF ok THEN "tx-1" ELSE ""
    /\ pc' = "shipOrder"
    /\ UNCHANGED <<req, cart, cartItems, orderItems, product, shippingUSD,
                   shippingCostLocalized, total, shippingTrackingID,
                   orderResult, resp, err, sumVars>>

\* variant: a failed charge is tried a second time
ChargeCardRetry ==
    /\ pc = "chargeCard"
    /\ \E ok \in BOOLEAN, again \in BOOLEAN :
         /\ calls' = IF ok THEN Append(calls, Call("Charge", 0, TRUE))
                     ELSE calls \o <<Call("Charge", 0, FALSE),
                                     Call("Charge", 0, again)>>
         /\ IF ok \/ again
            THEN /\ txID' = "tx-1"
                 /\ pc' = "shipOrder"
                 /\ UNCHANGED <<resp, err>>
            ELSE /\ Fail(Status("Internal",
                        <<"failed to charge card",
                          "could not charge the card", Cause("Charge")>>))
                 /\ UNCHANGED txID
    /\ UNCHANGED <<req, cart, cartItems, orderItems, product, shippingUSD,
                   shippingCostLocalized, total, shippingTrackingID,
                   orderResult, sumVars>>

\* cs.chargeCard
ChargeCard ==
    /\ pc = "chargeCard"
    /\ \E ok \in BOOLEAN :
         /\ calls' = Append(calls, Call("Charge", 0, ok))
         /\ IF ok
            THEN /\ txID' = "tx-1"
                 /\ pc' = "shipOrder"
                 /\ UNCHANGED <<resp, err>>
            ELSE /\ Fail(Status("Internal",
                        <<"failed to charge card",
                          "could not charge the card", Cause("Charge")>>))
                 /\ UNCHANGED txID
    /\ UNCHANGED <<req, cart, cartItems, orderItems, product, shippingUSD,
                   shippingCostLocalized, total, shippingTrackingID,
                   orderResult, sumVars>>

\* variant: a failed shipment is compensated by a refund call
ShipOrderRefund ==
    /\ pc = "shipOrder"
    /\ \E ok \in BOOLEAN :
         IF ok
         THEN /\ calls' = Append(calls, Call("ShipOrder", 0, TRUE))
              /\ \E t \in TrackingIds : shippingTrackingID' = t
              /\ pc' = "emptyUserCart"
              /\ UNCHANGED <<resp, err>>
         ELSE /\ calls' = calls \o <<Call("ShipOrder", 0, FALSE),
                                     Call("Refund", 0, TRUE)>>
              /\ Fail(Status("Unavailable",
                     <<"shipping error", "shipment failed",
                       Cause("ShipOrder")>>))
              /\ UNCHANGED shippingTrackingID
    /\ UNCHANGED <<req, cart, cartItems, orderItems, product, shippingUSD,
                   shippingCostLocalized, total, txID, orderResult, sumVars>>

\* cs.shipOrder
ShipOrder ==
    /\ pc = "shipOrder"
    /\ \E ok \in BOOLEAN :
         /\ calls' = Append(calls, Call("ShipOrder", 0, ok))
         /\ IF ok
            THEN /\ \E t \in TrackingIds : shippingTrackingID' = t
                 /\ pc' = "emptyUserCart"
                 /\ UNCHANGED <<resp, err>>
            ELSE /\ Fail(Status("Unavailable",
                        <<"shipping error", "shipment failed",
                          Cause("ShipOrder")>>))
                 /\ UNCHANGED shippingTrackingID
    /\ UNCHANGED <<req, cart, cartItems, orderItems, product, shippingUSD,
                   shippingCostLocalized, total, txID, orderResult, sumVars>>

\* variant: the error of emptyUserCart aborts the order
EmptyUserCartAbort ==
    /\ pc = "emptyUserCart"
    /\ \E ok \in BOOLEAN :
         /\ calls' = Append(calls, Call("EmptyCart", 0, ok))
         /\ IF ok
            THEN /\ cart' = <<>>
                 /\ orderResult' = [orderId |-> "order-1",
                                    shippingTrackingId |-> shippingTrackingID,
                                    shippingCost |-> shippingCostLocalized,
                                    shippingAddress |-> req.address,
                                    items |-> orderItems]
                 /\ pc' = "sendOrderConfirmation"
                 /\ UNCHANGED <<resp, err>>
            ELSE /\ Fail(Status("Internal",
                        <<"failed to empty user cart during checkout",
                          Cause("EmptyCart")>>))
                 /\ UNCHANGED <<cart, orderResult>>
    /\ UNCHANGED <<req, cartItems, orderItems, product, shippingUSD,
                   shippingCostLocalized, total, txID, shippingTrackingID,
                   sumVars>>

\* _ = cs.emptyUserCart, then the OrderResult is built
EmptyUserCart ==
    /\ pc = "emptyUserCart"
    /\ \E ok \in BOOLEAN :
         /\ calls' = Append(calls, Call("EmptyCart", 0, ok))
         /\ cart' = IF ok THEN <<>> ELSE cart
    /\ orderResult' = [orderId |-> "order-1",
                       shippingTrackingId |-> shippingTrackingID,
                       shippingCost |-> shippingCostLocalized,
                       shippingAddress |-> req.address,
                       items |-> orderItems]
    /\ pc' = "sendOrderConfirmation"
    /\ UNCHANGED <<req, cartItems, orderItems, product, shippingUSD,
                   shippingCostLocalized, total, txID, shippingTrackingID,
                   resp, err, sumVars>>

\* variant: the error of sendOrderConfirmation is returned to the caller
SendOrderConfirmationFatal ==
    /\ pc = "sendOrderConfirmation"
    /\ \E ok \in BOOLEAN :
         /\ calls' = Append(calls, Call("SendOrderConfirmation", 0, ok))
         /\ IF ok
            THEN /\ resp' = [nil |-> FALSE, order |-> orderResult]
                 /\ err' = NoErr
            ELSE /\ resp' = NoResp
                 /\ err' = Status("Internal",
                                  <<"failed to send order confirmation",
                                    Cause("SendOrderConfirmation")>>)
    /\ pc' = "done"
    /\ UNCHANGED <<req, cart, cartItems, orderItems, product, shippingUSD,
                   shippingCostLocalized, total, txID, shippingTrackingID,
                   orderResult, sumVars>>

\* cs.sendOrderConfirmation, then return resp, ctx, nil
SendOrderConfirmation ==
    /\ pc = "sendOrderConfirmation"
    /\ \E ok \in BOOLEAN :
         calls' = Append(calls, Call("SendOrderConfirmation", 0, ok))
    /\ resp' = [nil |-> FALSE, order |-> orderResult]
    /\ err' = NoErr
    /\ pc' = "done"
    /\ UNCHANGED <<req, cart, cartItems, orderItems, product, shippingUSD,
                   shippingCostLocalized, total, txID, shippingTrackingID,
                   orderResult, sumVars>>

Next ==
    \/ NewOrderID
    \/ GetUserCart
    \/ GetProduct
    \/ ConvertPrice
    \/ QuoteShipping
    \/ ConvertShipping
    \/ SumTotal
    \/ ChargeCard
    \/ ShipOrder
    \/ EmptyUserCart
    \/ SendOrderConfirmation

Spec == Init /\ [][Next]_vars

\* every step of PlaceOrder is its own code or a collaborator call that
\* returns, so a step that can be taken is taken eventually
\* carts of up to two items; quantity 0 skips the loop of MultiplySlow,
\* quantity 2 runs it
LiveCarts ==
    { <<>>,
      << [productId |-> "A", quantity |-> 2] >>,
      << [productId |-> "A", quantity |-> 2],
         [productId |-> "B", quantity |-> 0] >> }

InitLive ==
    /\ pc = "start"
    /\ req = [userId |-> "u1", userCurrency |-> "USD", address |-> "addr",
              email |-> "u1@example.com"]
    /\ cart \in LiveCarts
    /\ calls = <<>>
    /\ cartItems = <<>>
    /\ orderItems = <<>>
    /\ product = NoMoney
    /\ shippingUSD = NoMoney
    /\ shippingCostLocalized = NoMoney
    /\ total = NoMoney
    /\ txID = ""
    /\ shippingTrackingID = ""
    /\ orderResult = NoOrder
    /\ resp = NoResp
    /\ err = NoErr
    /\ sl = NoMoney
    /\ sr = NoMoney
    /\ sres = [m |-> NoMoney, err |-> "-"]
    /\ fin = <<>>
    /\ fout = <<>>

SpecLive == InitLive /\ [][Next]_vars /\ WF_vars(Next)

----------------------------------------------------------------------------
(* One PlaceOrder invocation whose currency service may answer any Money *)

MaxTerms == 2

\* what cs.currencyClient.Convert may answer: valid amounts in USD and EUR,
\* an amount without currency code, and two malformed amounts
TermInputs ==
    { Money(0, 500000000, "USD"), Money(1, 0, "USD"), Money(1, 0, "EUR"),
      Money(1, 0, ""), Money(1, -1, "USD"), Money(0, 1000000000, "USD") }

TermCarts == SeqsUpTo([productId : ProductIds, quantity : {1, 2}], MaxTerms)

InitAny ==
    /\ pc = "start"
    /\ req \in [userId : {"u1"}, userCurrency : UserCurrencies,
                address : {"addr"}, email : {"u1@example.com"}]
    /\ cart \in TermCarts
    /\ calls = <<>>
    /\ cartItems = <<>>
    /\ orderItems = <<>>
    /\ product = NoMoney
    /\ shippingUSD = NoMoney
    /\ shippingCostLocalized = NoMoney
    /\ total = NoMoney
    /\ txID = ""
    /\ shippingTrackingID = ""
    /\ orderResult = NoOrder
    /\ resp = NoResp
    /\ err = NoErr
    /\ sl = NoMoney
    /\ sr = NoMoney
    /\ sres = [m |-> NoMoney, err |-> "-"]
    /\ fin = <<>>
    /\ fout = <<>>

\* variant: every price is paired with the first cart item
ConvertPriceAnyFirstItem ==
    /\ pc = "convertPrice"
    /\ LET i == Len(orderItems) + 1
           item == cartItems[i]
       IN  \E ok \in BOOLEAN :
             /\ calls' = Append(calls, Call("Convert", i, ok))
             /\ IF ok
                THEN /\ \E price \in TermInputs :
                          /\ orderItems' = Append(orderItems,
                                 [item |-> cartItems[1], cost |-> price])
                          /\ fout' = Append(fout, [idx |-> i, m |-> price])
                     /\ pc' = IF i = Len(cartItems) THEN "quoteShipping"
                                                    ELSE "getProduct"
                     /\ UNCHANGED <<resp, err>>
                ELSE /\ Fail(Status("Internal",
                            <<"failed to prepare order",
                              "failed to convert price of", item.productId,
                              "to", req.userCurrency>>))
                     /\ UNCHANGED <<orderItems, fout>>
    /\ UNCHANGED <<req, cart, cartItems, product, shippingUSD,
                   shippingCostLocalized, total, txID, shippingTrackingID,
                   orderResult, sl, sr, sres, fin>>

\* prepOrderItems, loop body part 2, the answer taken as it comes;
\* fout logs the answers of Convert
ConvertPriceAny ==
    /\ pc = "convertPrice"
    /\ LET i == Len(orderItems) + 1
           item == cartItems[i]
       IN  \E ok \in BOOLEAN :
             /\ calls' = Append(calls, Call("Convert", i, ok))
             /\ IF ok
                THEN /\ \E price \in TermInputs :
                          /\ orderItems' = Append(orderItems,
                                 [item |-> item, cost |-> price])
                          /\ fout' = Append(fout, [idx |-> i, m |-> price])
                     /\ pc' = IF i = Len(cartItems) THEN "quoteShipping"
                                                    ELSE "getProduct"
                     /\ UNCHANGED <<resp, err>>
                ELSE /\ Fail(Status("Internal",
                            <<"failed to prepare order",
                              "failed to convert price of", item.productId,
                              "to", req.userCurrency>>))
                     /\ UNCHANGED <<orderItems, fout>>
    /\ UNCHANGED <<req, cart, cartItems, product, shippingUSD,
                   shippingCostLocalized, total, txID, shippingTrackingID,
                   orderResult, sl, sr, sres, fin>>

\* cs.convertCurrency(shippingUSD, userCurrency), the answer taken as it
\* comes
ConvertShippingAny ==
    /\ pc = "convertShipping"
    /\ \E ok \in BOOLEAN :
         /\ calls' = Append(calls, Call("Convert", 0, ok))
         /\ IF ok
            THEN /\ \E shippingPrice \in TermInputs :
                      /\ shippingCostLocalized' = shippingPrice
                      /\ fout' = Append(fout,
                                        [idx |-> 0, m |-> shippingPrice])
                 /\ pc' = "total"
                 /\ UNCHANGED <<resp, err>>
            ELSE /\ Fail(Status("Internal",
                        <<"failed to convert shipping cost to currency",
                          "failed to convert currency",
                          Cause("Convert")>>))
                 /\ UNCHANGED <<shippingCostLocalized, fout>>
    /\ UNCHANGED <<req, cart, cartItems, orderItems, product, shippingUSD,
                   total, txID, shippingTrackingID, orderResult,
                   sl, sr, sres, fin>>

NextAny ==
    \/ NewOrderID
    \/ GetUserCart
    \/ GetProduct
    \/ ConvertPriceAny
    \/ QuoteShipping
    \/ ConvertShippingAny
    \/ SumTotal
    \/ ChargeCard
    \/ ShipOrder
    \/ EmptyUserCart
    \/ SendOrderConfirmation

SpecAny == InitAny /\ [][NextAny]_vars

----------------------------------------------------------------------------
(* Concurrent PlaceOrder invocations of different users.  Each variable of
   one invocation becomes a function of the invocation; the cart store is
   a function of the user id.  The CheckoutService holds only the clients,
   which PlaceOrder reads and never writes. *)

MaxProcs == 2

Procs == 1..MaxProcs

UserOf(p) == IF p = 1 THEN "u1" ELSE IF p = 2 THEN "u2" ELSE "u3"

Users == { UserOf(p) : p \in Procs }

CurrencyOf(p) == IF p % 2 = 1 THEN "USD" ELSE "EUR"

\* the carts the users hold when they check out
CartOf(u) ==
    IF u = "u2"
    THEN << [productId |-> "B", quantity |-> 1],
            [productId |-> "A", quantity |-> 1] >>
    ELSE << [productId |-> "A", quantity |-> 2] >>

\* the prices the currency service may answer
ConcAmounts == { <<0, 500000000>>, <<8, 990000000>> }

InitConc ==
    /\ pc = [p \in Procs |-> "start"]
    /\ req = [p \in Procs |->
                [userId |-> UserOf(p), userCurrency |-> CurrencyOf(p),
                 address |-> "addr-" \o UserOf(p),
                 email |-> UserOf(p) \o "@example.com"]]
    /\ cart = [u \in Users |-> CartOf(u)]
    /\ calls = [p \in Procs |-> <<>>]
    /\ cartItems = [p \in Procs |-> <<>>]
    /\ orderItems = [p \in Procs |-> <<>>]
    /\ product = [p \in Procs |-> NoMoney]
    /\ shippingUSD = [p \in Procs |-> NoMoney]
    /\ shippingCostLocalized = [p \in Procs |-> NoMoney]
    /\ total = [p \in Procs |-> NoMoney]
    /\ txID = [p \in Procs |-> ""]
    /\ shippingTrackingID = [p \in Procs |-> ""]
    /\ orderResult = [p \in Procs |-> NoOrder]
    /\ resp = [p \in Procs |-> NoResp]
    /\ err = [p \in Procs |-> NoErr]
    /\ sl = NoMoney
    /\ sr = NoMoney
    /\ sres = [m |-> NoMoney, err |-> "-"]
    /\ fin = <<>>
    /\ fout = <<>>

\* return nil, ctx, <error> of invocation p
FailOf(p, e) ==
    /\ pc' = [pc EXCEPT ![p] = "done"]
    /\ resp' = [resp EXCEPT ![p] = NoResp]
    /\ err' = [err EXCEPT ![p] = e]

GoOn(p, next) ==
    /\ pc' = [pc EXCEPT ![p] = next]
    /\ UNCHANGED <<resp, err>>

NewOrderIDOf(p) ==
    /\ pc[p] = "start"
    /\ \/ FailOf(p, Status("Internal", <<"failed to generate order uuid">>))
       \/ GoOn(p, "getUserCart")
    /\ UNCHANGED <<req, cart, calls, cartItems, orderItems, product,
                   shippingUSD, shippingCostLocalized, total, txID,
                   shippingTrackingID, orderResult, sumVars>>

GetUserCartOf(p) ==
    /\ pc[p] = "getUserCart"
    /\ \E ok \in BOOLEAN :
         /\ calls' = [calls EXCEPT ![p] = Append(@, Call("GetCart", 0, ok))]
         /\ IF ok
            THEN /\ cartItems' = [cartItems EXCEPT
                                    ![p] = cart[req[p].userId]]
                 /\ GoOn(p, IF Len(cart[req[p].userId]) = 0
                            THEN "quoteShipping" ELSE "getProduct")
            ELSE /\ FailOf(p, Status("Internal",
                        <<"cart failure",
                          "failed to get user cart during checkout",
                          Cause("GetCart")>>))
                 /\ UNCHANGED cartItems
    /\ UNCHANGED <<req, cart, orderItems, product, shippingUSD,
                   shippingCostLocalized, total, txID, shippingTrackingID,
                   orderResult, sumVars>>

GetProductOf(p) ==
    /\ pc[p] = "getProduct"
    /\ LET i == Len(orderItems[p]) + 1
           item == cartItems[p][i]
       IN  \E ok \in BOOLEAN :
             /\ calls' = [calls EXCEPT
                            ![p] = Append(@, Call("GetProduct", i, ok))]
             /\ IF ok
                THEN /\ product' = [product EXCEPT
                                      ![p] = PriceUsd(item.productId)]
                     /\ GoOn(p, "convertPrice")
                ELSE /\ FailOf(p, Status("Internal",
                            <<"failed to prepare order",
                              "failed to get product #", item.productId>>))
                     /\ UNCHANGED product
    /\ UNCHANGED <<req, cart, cartItems, orderItems, shippingUSD,
                   shippingCostLocalized, total, txID, shippingTrackingID,
                   orderResult, sumVars>>

ConvertPriceOf(p) ==
    /\ pc[p] = "convertPrice"
    /\ LET i == Len(orderItems[p]) + 1
           item == cartItems[p][i]
       IN  \E ok \in BOOLEAN :
             /\ calls' = [calls EXCEPT
                            ![p] = Append(@, Call("Convert", i, ok))]
             /\ IF ok
                THEN /\ \E a \in ConcAmounts :
                          orderItems' = [orderItems EXCEPT ![p] =
                              Append(@, [item |-> item,
                                         cost |-> Money(a[1], a[2],
                                                    req[p].userCurrency)])]
                     /\ GoOn(p, IF i = Len(cartItems[p])
                                THEN "quoteShipping" ELSE "getProduct")
                ELSE /\ FailOf(p, Status("Internal",
                            <<"failed to prepare order",
                              "failed to convert price of", item.productId,
                              "to", req[p].userCurrency>>))
                     /\ UNCHANGED orderItems
    /\ UNCHANGED <<req, cart, cartItems, product, shippingUSD,
                   shippingCostLocalized, total, txID, shippingTrackingID,
                   orderResult, sumVars>>

QuoteShippingOf(p) ==
    /\ pc[p] = "quoteShipping"
    /\ \E ok \in BOOLEAN :
         /\ calls' = [calls EXCEPT ![p] = Append(@, Call("GetQuote", 0, ok))]
         /\ IF ok
            THEN /\ shippingUSD' = [shippingUSD EXCEPT ![p] = QuoteUsd]
                 /\ GoOn(p, "convertShipping")
            ELSE /\ FailOf(p, Status("Internal",
                        <<"shipping quote failure",
                          "failed to get shipping quote",
                          Cause("GetQuote")>>))
                 /\ UNCHANGED shippingUSD
    /\ UNCHANGED <<req, cart, cartItems, orderItems, product,
                   shippingCostLocalized, total, txID, shippingTrackingID,
                   orderResult, sumVars>>

ConvertShippingOf(p) ==
    /\ pc[p] = "convertShipping"
    /\ \E ok \in BOOLEAN :
         /\ calls' = [calls EXCEPT ![p] = Append(@, Call("Convert", 0, ok))]
         /\ IF ok
            THEN /\ shippingCostLocalized' =
                      [shippingCostLocalized EXCEPT
                         ![p] = Money(QuoteUsd.units, QuoteUsd.nanos,
                                      req[p].userCurrency)]
                 /\ GoOn(p, "total")
            ELSE /\ FailOf(p, Status("Internal",
                        <<"failed to convert shipping cost to currency",
                          "failed to convert currency",
                          Cause("Convert")>>))
                 /\ UNCHANGED shippingCostLocalized
    /\ UNCHANGED <<req, cart, cartItems, orderItems, product, shippingUSD,
                   total, txID, shippingTrackingID, orderResult, sumVars>>

\* variant: the total is kept in a field of the CheckoutService, which all
\* invocations share
SumTotalSharedOf(p) ==
    /\ pc[p] = "total"
    /\ LET t == ComputeTotal(req[p].userCurrency, shippingCostLocalized[p],
                             orderItems[p])
       IN  IF t.panic
           THEN /\ pc' = [pc EXCEPT ![p] = "panic"]
                /\ UNCHANGED total
           ELSE /\ pc' = [pc EXCEPT ![p] = "chargeCard"]
                /\ total' = [q \in Procs |-> t.m]
    /\ UNCHANGED <<req, cart, calls, cartItems, orderItems, product,
                   shippingUSD, shippingCostLocalized, txID,
                   shippingTrackingID, orderResult, resp, err, sumVars>>

\* total is a local of PlaceOrder
SumTotalOf(p) ==
    /\ pc[p] = "total"
    /\ LET t == ComputeTotal(req[p].userCurrency, shippingCostLocalized[p],
                             orderItems[p])
       IN  IF t.panic
           THEN /\ pc' = [pc EXCEPT ![p] = "panic"]
                /\ UNCHANGED total
           ELSE /\ pc' = [pc EXCEPT ![p] = "chargeCard"]
                /\ total' = [total EXCEPT ![p] = t.m]
    /\ UNCHANGED <<req, cart, calls, cartItems, orderItems, product,
                   shippingUSD, shippingCostLocalized, txID,
                   shippingTrackingID, orderResult, resp, err, sumVars>>

\* cs.chargeCard(ctx, &total, req.CreditCard); the call carries the amount
ChargeCardOf(p) ==
    /\ pc[p] = "chargeCard"
    /\ \E ok \in BOOLEAN :
         /\ calls' = [calls EXCEPT ![p] =
                        Append(@, [op |-> "Charge", idx |-> 0, ok |-> ok,
                                   ctx |-> CallCtx("Charge"),
                                   amount |-> total[p]])]
         /\ IF ok
            THEN /\ txID' = [txID EXCEPT ![p] = "tx-" \o req[p].userId]
                 /\ GoOn(p, "shipOrder")
            ELSE /\ FailOf(p, Status("Internal",
                        <<"failed to charge card",
                          "could not charge the card", Cause("Charge")>>))
                 /\ UNCHANGED txID
    /\ UNCHANGED <<req, cart, cartItems, orderItems, product, shippingUSD,
                   shippingCostLocalized, total, shippingTrackingID,
                   orderResult, sumVars>>

ShipOrderOf(p) ==
    /\ pc[p] = "shipOrder"
    /\ \E ok \in BOOLEAN :
         /\ calls' = [calls EXCEPT ![p] = Append(@, Call("ShipOrder", 0, ok))]
         /\ IF ok
            THEN /\ shippingTrackingID' =
                      [shippingTrackingID EXCEPT
                         ![p] = "TR-" \o req[p].userId]
                 /\ GoOn(p, "emptyUserCart")
            ELSE /\ FailOf(p, Status("Unavailable",
                        <<"shipping error", "shipment failed",
                          Cause("ShipOrder")>>))
                 /\ UNCHANGED shippingTrackingID
    /\ UNCHANGED <<req, cart, cartItems, orderItems, product, shippingUSD,
                   shippingCostLocalized, total, txID, orderResult,
                   sumVars>>

EmptyUserCartOf(p) ==
    /\ pc[p] = "emptyUserCart"
    /\ \E ok \in BOOLEAN :
         /\ calls' = [calls EXCEPT ![p] = Append(@, Call("EmptyCart", 0, ok))]
         /\ cart' = IF ok THEN [cart EXCEPT ![req[p].userId] = <<>>]
                          ELSE cart
    /\ orderResult' = [orderResult EXCEPT ![p] =
                         [orderId |-> "order-" \o req[p].userId,
                          shippingTrackingId |-> shippingTrackingID[p],
                          shippingCost |-> shippingCostLocalized[p],
                          shippingAddress |-> req[p].address,
                          items |-> orderItems[p]]]
    /\ pc' = [pc EXCEPT ![p] = "sendOrderConfirmation"]
    /\ UNCHANGED <<req, cartItems, orderItems, product, shippingUSD,
                   shippingCostLocalized, total, txID, shippingTrackingID,
                   resp, err, sumVars>>

SendOrderConfirmationOf(p) ==
    /\ pc[p] = "sendOrderConfirmation"
    /\ \E ok \in BOOLEAN :
         calls' = [calls EXCEPT
                     ![p] = Append(@, Call("SendOrderConfirmation", 0, ok))]
    /\ resp' = [resp EXCEPT ![p] = [nil |-> FALSE, order |-> orderResult[p]]]
    /\ err' = [err EXCEPT ![p] = NoErr]
    /\ pc' = [pc EXCEPT ![p] = "done"]
    /\ UNCHANGED <<req, cart, cartItems, orderItems, product, shippingUSD,
                   shippingCostLocalized, total, txID, shippingTrackingID,
                   orderResult, sumVars>>

NextConc ==
    \E p \in Procs :
        \/ NewOrderIDOf(p)
        \/ GetUserCartOf(p)
        \/ GetProductOf(p)
        \/ ConvertPriceOf(p)
        \/ QuoteShippingOf(p)
        \/ ConvertShippingOf(p)
        \/ SumTotalOf(p)
        \/ ChargeCardOf(p)
        \/ ShipOrderOf(p)
        \/ EmptyUserCartOf(p)
        \/ SendOrderConfirmationOf(p)

SpecConc == InitConc /\ [][NextConc]_vars

----------------------------------------------------------------------------
(* The cart service over its Redis store.  cart maps a user id to the list
   stored under that key (the empty list when the key is absent); AddItem
   reads the list, appends to its copy and writes the copy back.  fout logs
   the reads and writes of AddItem in the order they happen. *)

RedisErr == "redis: connection error"

\* CartService.GetCart on the store as it is
GetCart(u) == cart[u]

\* AddItem, first half: s.rdb.Get and json.Unmarshal into the local cart
AddItemGet(a) ==
    /\ pc[a] = "addGet"
    /\ \E ok \in BOOLEAN :
         /\ fout' = Append(fout, [op |-> "AddItem.Get", by |-> a, ok |-> ok])
         /\ IF ok
            THEN /\ cartItems' = [cartItems EXCEPT ![a] = cart[req[a].userId]]
                 /\ pc' = [pc EXCEPT ![a] = "addSet"]
                 /\ UNCHANGED err
            ELSE /\ err' = [err EXCEPT ![a] = RedisErr]
                 /\ pc' = [pc EXCEPT ![a] = "added"]
                 /\ UNCHANGED cartItems
    /\ UNCHANGED <<req, cart, calls, orderItems, product, shippingUSD,
                   shippingCostLocalized, total, txID, shippingTrackingID,
                   orderResult, resp, sl, sr, sres, fin>>

\* AddItem, second half: append, json.Marshal and s.rdb.Set of the copy
AddItemSet(a) ==
    /\ pc[a] = "addSet"
    /\ \E ok \in BOOLEAN :
         /\ fout' = Append(fout, [op |-> "AddItem.Set", by |-> a, ok |-> ok])
         /\ IF ok
            THEN /\ cart' = [cart EXCEPT ![req[a].userId] =
                               Append(cartItems[a], req[a].item)]
                 /\ err' = [err EXCEPT ![a] = ErrNil]
            ELSE /\ err' = [err EXCEPT ![a] = RedisErr]
                 /\ UNCHANGED cart
    /\ pc' = [pc EXCEPT ![a] = "added"]
    /\ UNCHANGED <<req, calls, cartItems, orderItems, product, shippingUSD,
                   shippingCostLocalized, total, txID, shippingTrackingID,
                   orderResult, resp, sl, sr, sres, fin>>

MaxAdders == 2

Adders == 1..MaxAdders

AddedItems == [productId : ProductIds, quantity : {1}]

InitCart ==
    /\ pc = [a \in Adders |-> "addGet"]
    /\ req \in [Adders -> [userId : {"u1"}, item : AddedItems]]
    /\ cart \in [{"u1"} -> {<<>>, << [productId |-> "A", quantity |-> 1] >>}]
    /\ calls = <<>>
    /\ cartItems = [a \in Adders |-> <<>>]
    /\ err = [a \in Adders |-> "-"]
    /\ orderItems = cart["u1"]       \* the list stored before the calls
    /\ product = NoMoney
    /\ shippingUSD = NoMoney
    /\ shippingCostLocalized = NoMoney
    /\ total = NoMoney
    /\ txID = ""
    /\ shippingTrackingID = ""
    /\ orderResult = NoOrder
    /\ resp = NoResp
    /\ sl = NoMoney
    /\ sr = NoMoney
    /\ sres = [m |-> NoMoney, err |-> "-"]
    /\ fin = <<>>
    /\ fout = <<>>

NextCart ==
    \E a \in Adders :
        \/ AddItemGet(a)
        \/ AddItemSet(a)

SpecCart == InitCart /\ [][NextCart]_vars

----------------------------------------------------------------------------
(* PlaceOrder invocations of ONE user over the same cart, and an AddItem
   call (process 0) for that user running beside them *)

Shopper == "u1"

Adder == 0

ItemAddedBeside == [productId |-> "B", quantity |-> 1]

InitShared ==
    /\ pc = [p \in Procs \cup {Adder} |->
               IF p = Adder THEN "addGet" ELSE "start"]
    /\ req = [p \in Procs \cup {Adder} |->
                IF p = Adder
                THEN [userId |-> Shopper, item |-> ItemAddedBeside]
                ELSE [userId |-> Shopper, userCurrency |-> "USD",
                      address |-> "addr-" \o Shopper,
                      email |-> Shopper \o "@example.com"]]
    /\ cart = [u \in {Shopper} |-> CartOf(Shopper)]
    /\ calls = [p \in Procs |-> <<>>]
    /\ cartItems = [p \in Procs \cup {Adder} |-> <<>>]
    /\ orderItems = [p \in Procs |-> <<>>]
    /\ product = [p \in Procs |-> NoMoney]
    /\ shippingUSD = [p \in Procs |-> NoMoney]
    /\ shippingCostLocalized = [p \in Procs |-> NoMoney]
    /\ total = [p \in Procs |-> NoMoney]
    /\ txID = [p \in Procs |-> ""]
    /\ shippingTrackingID = [p \in Procs |-> ""]
    /\ orderResult = [p \in Procs |-> NoOrder]
    /\ resp = [p \in Procs |-> NoResp]
    /\ err = [p \in Procs \cup {Adder} |-> IF p = Adder THEN "-" ELSE NoErr]
    /\ sl = NoMoney
    /\ sr = NoMoney
    /\ sres = [m |-> NoMoney, err |-> "-"]
    /\ fin = <<>>
    /\ fout = <<>>

NextShared ==
    \/ NextConc
    \/ AddItemGet(Adder)
    \/ AddItemSet(Adder)

SpecShared == InitShared /\ [][NextShared]_vars

----------------------------------------------------------------------------
(* Sum as a pure function over bounded operands *)

MaxUnits == 1

NanosInputs == { -1000000000, -999999999, -600000000, -1, 0,
                 1, 600000000, 999999999, 1000000000 }

CodeInputs == {"USD", "EUR", ""}

MoneyInputs ==
    { Money(u, n, c) : u \in -MaxUnits..MaxUnits, n \in NanosInputs,
                       c \in CodeInputs }

NoSum == [m |-> NoMoney, err |-> "-"]

InitSum ==
    /\ sl \in MoneyInputs
    /\ sr \in MoneyInputs
    /\ sres = NoSum
    /\ fin = <<sl, sr>>
    /\ fout = <<>>
    /\ pc = "idle"
    /\ req = [userId |-> "u1", userCurrency |-> "USD", address |-> "addr",
              email |-> "u1@example.com"]
    /\ cart = <<>>
    /\ calls = <<>>
    /\ cartItems = <<>>
    /\ orderItems = <<>>
    /\ product = NoMoney
    /\ shippingUSD = NoMoney
    /\ shippingCostLocalized = NoMoney
    /\ total = NoMoney
    /\ txID = ""
    /\ shippingTrackingID = ""
    /\ orderResult = NoOrder
    /\ resp = NoResp
    /\ err = NoErr

DoSum ==
    /\ sres = NoSum
    /\ sres' = Sum(sl, sr)
    /\ UNCHANGED <<sl, sr, fin, fout, orderVars>>

NextSum == DoSum

SpecSum == InitSum /\ [][NextSum]_vars

----------------------------------------------------------------------------
(* The money functions applied to bounded arguments *)

\* the state of the checkout while a money function is applied
IdleOrder ==
    /\ pc = "idle"
    /\ req = [userId |-> "u1", userCurrency |-> "USD", address |-> "addr",
              email |-> "u1@example.com"]
    /\ cart = <<>>
    /\ calls = <<>>
    /\ cartItems = <<>>
    /\ orderItems = <<>>
    /\ product = NoMoney
    /\ shippingUSD = NoMoney
    /\ shippingCostLocalized = NoMoney
    /\ total = NoMoney
    /\ txID = ""
    /\ shippingTrackingID = ""
    /\ orderResult = NoOrder
    /\ resp = NoResp
    /\ err = NoErr

IdleSum ==
    /\ sl = NoMoney
    /\ sr = NoMoney
    /\ sres = NoSum

NoOut == <<>>

ValidInputs ==
    { m \in MoneyInputs : IsValid(m) /\ m.code \in {"USD", "EUR"} }

\* a, err := Sum(a, b); then Sum(a, c) unless err
SumLeftNested(a, b, c) ==
    LET i == Sum(a, b)
    IN  IF i.err # ErrNil THEN i ELSE Sum(i.m, c)

\* a, err := Sum(b, c); then Sum(a, .) unless err
SumRightNested(a, b, c) ==
    LET i == Sum(b, c)
    IN  IF i.err # ErrNil THEN i ELSE Sum(a, i.m)

InitAssoc ==
    /\ fin \in [a : ValidInputs, b : ValidInputs, c : ValidInputs]
    /\ fout = NoOut
    /\ IdleSum
    /\ IdleOrder

DoAssoc ==
    /\ fout = NoOut
    /\ fout' = [left  |-> SumLeftNested(fin.a, fin.b, fin.c),
                right |-> SumRightNested(fin.a, fin.b, fin.c)]
    /\ UNCHANGED <<fin, sl, sr, sres, orderVars>>

NextAssoc == DoAssoc

SpecAssoc == InitAssoc /\ [][NextAssoc]_vars

MaxN == 3

InitMul ==
    /\ fin \in [m : MoneyInputs, n : 0..MaxN]
    /\ fout = NoOut
    /\ IdleSum
    /\ IdleOrder

DoMul ==
    /\ fout = NoOut
    /\ fout' = MultiplySlow(fin.m, fin.n)
    /\ UNCHANGED <<fin, sl, sr, sres, orderVars>>

\* the loop body of PlaceOrder's total for one order item of cost fin.m and
\* quantity fin.n, on a running total of zero in the currency of the item
AddItemToTotal ==
    /\ pc = "idle"
    /\ LET item == [item |-> [productId |-> "A", quantity |-> fin.n],
                    cost |-> fin.m]
           t == TotalLoop(Money(0, 0, fin.m.code), <<item>>, 1)
       IN  IF t.panic
           THEN /\ pc' = "panic"
                /\ UNCHANGED total
           ELSE /\ pc' = "summed"
                /\ total' = t.m
    /\ UNCHANGED <<req, cart, calls, cartItems, orderItems, product,
                   shippingUSD, shippingCostLocalized, txID,
                   shippingTrackingID, orderResult, resp, err, sumVars>>

NextMul == DoMul \/ AddItemToTotal

SpecMul == InitMul /\ [][NextMul]_vars

InitSign ==
    /\ fin \in MoneyInputs
    /\ fout = NoOut
    /\ IdleSum
    /\ IdleOrder

DoSign ==
    /\ fout = NoOut
    /\ fout' = [valid |-> IsValid(fin),
                zero |-> IsZero(fin),
                positive |-> IsPositive(fin),
                negative |-> IsNegative(fin)]
    /\ UNCHANGED <<fin, sl, sr, sres, orderVars>>

NextSign == DoSign

SpecSign == InitSign /\ [][NextSign]_vars

----------------------------------------------------------------------------
(* Currency service: carry and Convert *)

fractionSize == 1000000000

\* carry(units, nanos) on the float64 arguments uNum/den and nNum/den; the
\* steps are exact on such operands for den in {1, 2}.  All nanos
\* quantities are kept multiplied by den until the final int32().
carry(uNum, nNum, den) ==
    LET \* nanos += math.Mod(units, 1.0) * fractionSize
        n1 == nNum + GoRem(uNum, den) * fractionSize
        \* units = math.Floor(units) + math.Floor(nanos/fractionSize)
        units == (uNum \div den) + (n1 \div (den * fractionSize))
        \* nanos = math.Mod(nanos, fractionSize)
        n2 == GoRem(n1, den * fractionSize)
    IN  Money(units, GoDiv(n2, den), "")

\* the conversion table read from data/currency_conversion.json: units of
\* each currency per euro
conversionMap == [c \in {"EUR", "USD"} |-> IF c = "EUR" THEN 1 ELSE 2]

\* variant: the lookup of toCode is not checked (a missing rate is 0)
ConvertNoTargetCheck(from, toCode) ==
    IF from.code \notin DOMAIN conversionMap
    THEN [m |-> NoMoney,
          err |-> "unsupported currency code: " \o from.code]
    ELSE LET euros == carry(from.units, from.nanos, conversionMap[from.code])
             toRate == IF toCode \in DOMAIN conversionMap
                       THEN conversionMap[toCode] ELSE 0
             to == carry(euros.units * toRate, euros.nanos * toRate, 1)
         IN  [m |-> Money(to.units, to.nanos, toCode), err |-> ErrNil]

\* CurrencyService.Convert
Convert(from, toCode) ==
    IF from.code \notin DOMAIN conversionMap
    THEN [m |-> NoMoney,
          err |-> "unsupported currency code: " \o from.code]
    ELSE LET euros == carry(from.units, from.nanos, conversionMap[from.code])
         IN  IF toCode \notin DOMAIN conversionMap
             THEN [m |-> NoMoney,
                   err |-> "unsupported currency code: " \o toCode]
             ELSE LET toRate == conversionMap[toCode]
                      to == carry(euros.units * toRate,
                                  euros.nanos * toRate, 1)
                  IN  [m |-> Money(to.units, to.nanos, toCode),
                       err |-> ErrNil]

MaxCarry == 2

CarryNanos == { -1500000000, -1000000000, -999999999, -500000000, -1, 0,
                1, 500000000, 999999999, 1000000000, 1500000000 }

CarryInputs ==
    { a \in [uNum : -MaxCarry..MaxCarry, nNum : CarryNanos, den : {1, 2}] :
        a.den = 2 => (-1000000000 <= a.nNum /\ a.nNum <= 1000000000) }

InitCarry ==
    /\ fin \in CarryInputs
    /\ fout = NoOut
    /\ IdleSum
    /\ IdleOrder

DoCarry ==
    /\ fout = NoOut
    /\ fout' = carry(fin.uNum, fin.nNum, fin.den)
    /\ UNCHANGED <<fin, sl, sr, sres, orderVars>>

NextCarry == DoCarry

SpecCarry == InitCarry /\ [][NextCarry]_vars

\* Convert as called by the checkout for the price of the first cart item
\* (site "price") or for the shipping quote (site "shipping")
ConvertCodes == {"EUR", "USD", "XXX", ""}

ConvertInputs ==
    [from : { Money(u, n, c) : u \in {0, 1, 8, 10},
                               n \in {0, 500000000, 990000000},
                               c \in ConvertCodes },
     toCode : ConvertCodes,
     site : {"price", "shipping"}]

InitConvert ==
    /\ fin \in ConvertInputs
    /\ fout = NoOut
    /\ IdleSum
    /\ pc = "convert"
    /\ req = [userId |-> "u1", userCurrency |-> fin.toCode,
              address |-> "addr", email |-> "u1@example.com"]
    /\ cart = << [productId |-> "A", quantity |-> 1] >>
    /\ calls = <<>>
    /\ cartItems = << [productId |-> "A", quantity |-> 1] >>
    /\ orderItems = <<>>
    /\ product = IF fin.site = "price" THEN fin.from ELSE NoMoney
    /\ shippingUSD = IF fin.site = "shipping" THEN fin.from ELSE NoMoney
    /\ shippingCostLocalized = NoMoney
    /\ total = NoMoney
    /\ txID = ""
    /\ shippingTrackingID = ""
    /\ orderResult = NoOrder
    /\ resp = NoResp
    /\ err = NoErr

\* cs.currencyClient.Convert served by CurrencyService.Convert
ConvertServed ==
    /\ pc = "convert"
    /\ fout' = Convert(fin.from, req.userCurrency)
    /\ calls' = Append(calls,
                       Call("Convert", IF fin.site = "price" THEN 1 ELSE 0,
                            fout'.err = ErrNil))
    /\ pc' = "convertReturned"
    /\ UNCHANGED <<fin, sl, sr, sres, req, cart, cartItems, orderItems,
                   product, shippingUSD, shippingCostLocalized, total, txID,
                   shippingTrackingID, orderResult, resp, err>>

\* what prepOrderItems and prepareOrderItemsAndShippingQuoteFromCart do
\* with the answer
ConvertHandled ==
    /\ pc = "convertReturned"
    /\ IF fout.err # ErrNil
       THEN /\ Fail(IF fin.site = "price"
                    THEN Status("Internal",
                           <<"failed to prepare order",
                             "failed to convert price of",
                             cartItems[1].productId, "to",
                             req.userCurrency>>)
                    ELSE Status("Internal",
                           <<"failed to convert shipping cost to currency",
                             "failed to convert currency", fout.err>>))
            /\ UNCHANGED <<orderItems, shippingCostLocalized>>
       ELSE /\ IF fin.site = "price"
               THEN /\ orderItems' = << [item |-> cartItems[1],
                                         cost |-> fout.m] >>
                    /\ pc' = "quoteShipping"
                    /\ UNCHANGED shippingCostLocalized
               ELSE /\ shippingCostLocalized' = fout.m
                    /\ pc' = "total"
                    /\ UNCHANGED orderItems
            /\ UNCHANGED <<resp, err>>
    /\ UNCHANGED <<fin, fout, sl, sr, sres, req, cart, calls, cartItems,
                   product, shippingUSD, total, txID, shippingTrackingID,
                   orderResult>>

NextConvert == ConvertServed \/ ConvertHandled

SpecConvert == InitConvert /\ [][NextConvert]_vars

----------------------------------------------------------------------------
(* The payment service *)

InvalidCreditCardErr == "invalid credit card"
UnacceptedCreditCardErr ==
    "credit card not accepted; only VISA or MasterCard are accepted"
ExpiredCreditCardErr == "credit card expired"

\* strings.ReplaceAll(number, "-", "") on a number given as its characters
StripHyphens(number) == SelectSeq(number, LAMBDA ch : ch # "-")

IsLeap(y) == (y % 4 = 0 /\ y % 100 # 0) \/ y % 400 = 0

DaysIn(y, m) ==
    IF m \in {4, 6, 9, 11} THEN 30
    ELSE IF m = 2 THEN (IF IsLeap(y) THEN 29 ELSE 28)
    ELSE 31

\* time.Date(year, month, 0, 0, 0, 0, 0, time.Local): day 0 is normalised
\* to the last day of the month before, at 00:00
ExpiryDate(year, month) ==
    LET idx == year * 12 + (month - 1) - 1
        y == idx \div 12
        m == (idx % 12) + 1
    IN  [year |-> y, month |-> m, day |-> DaysIn(y, m), midnight |-> TRUE]

\* Time.Before; midnight says that the instant is 00:00 sharp of its day
Before(t, u) ==
    \/ t.year < u.year
    \/ /\ t.year = u.year
       /\ \/ t.month < u.month
          \/ /\ t.month = u.month
             /\ \/ t.day < u.day
                \/ t.day = u.day /\ t.midnight /\ ~u.midnight

\* variant: the CVV is checked before the card network
validateAndChargeCvvFirst(card, now, uuid) ==
    LET number == StripHyphens(card.number)
        company == IF Len(number) >= 4 /\ number[1] = "4" THEN "Visa"
                   ELSE IF Len(number) >= 4 /\ number[1] = "5"
                        THEN "MasterCard" ELSE ""
        out(e) == [company |-> company, txid |-> "", err |-> e]
    IN  IF card.cvv < 100 \/ card.cvv > 9999
        THEN out(InvalidCreditCardErr)
        ELSE IF Len(number) < 4 THEN out(InvalidCreditCardErr)
        ELSE IF company = "" THEN out(UnacceptedCreditCardErr)
        ELSE IF Before(ExpiryDate(card.year, card.month), now)
             THEN out(ExpiredCreditCardErr)
        ELSE [company |-> company, txid |-> uuid, err |-> ErrNil]

\* variant: only CVVs of three digits are accepted
validateAndChargeThreeDigitCvv(card, now, uuid) ==
    LET number == StripHyphens(card.number)
        company == IF Len(number) >= 4 /\ number[1] = "4" THEN "Visa"
                   ELSE IF Len(number) >= 4 /\ number[1] = "5"
                        THEN "MasterCard" ELSE ""
        out(e) == [company |-> company, txid |-> "", err |-> e]
    IN  IF Len(number) < 4 THEN out(InvalidCreditCardErr)
        ELSE IF company = "" THEN out(UnacceptedCreditCardErr)
        ELSE IF card.cvv < 100 \/ card.cvv > 999
             THEN out(InvalidCreditCardErr)
        ELSE IF Before(ExpiryDate(card.year, card.month), now)
             THEN out(ExpiredCreditCardErr)
        ELSE [company |-> company, txid |-> uuid, err |-> ErrNil]

\* validateAndCharge; company is the card network the switch settled on
validateAndCharge(card, now, uuid) ==
    LET number == StripHyphens(card.number)
        company == IF Len(number) >= 4 /\ number[1] = "4" THEN "Visa"
                   ELSE IF Len(number) >= 4 /\ number[1] = "5"
                        THEN "MasterCard" ELSE ""
        out(e) == [company |-> company, txid |-> "", err |-> e]
    IN  IF Len(number) < 4 THEN out(InvalidCreditCardErr)
        ELSE IF company = "" THEN out(UnacceptedCreditCardErr)
        ELSE IF card.cvv < 100 \/ card.cvv > 9999
             THEN out(InvalidCreditCardErr)
        ELSE IF Before(ExpiryDate(card.year, card.month), now)
             THEN out(ExpiredCreditCardErr)
        ELSE [company |-> company, txid |-> uuid, err |-> ErrNil]

NoValidation == [company |-> "", txid |-> "", err |-> "-"]

\* PaymentService.Charge: the log line slices the last four characters of
\* the number as sent, which panics when it has fewer than four
Charge(card, now, uuid) ==
    IF Len(card.number) < 4
    THEN [panic |-> TRUE, validated |-> NoValidation,
          txid |-> "", err |-> "-"]
    ELSE LET v == validateAndCharge(card, now, uuid)
         IN  [panic |-> FALSE, validated |-> v,
              txid |-> v.txid, err |-> v.err]

MaxCardLen == 5

CardChars == {"4", "5", "6", "-"}

CardNumbers == SeqsUpTo(CardChars, MaxCardLen)

CvvInputs == {99, 100, 9999, 10000}

ExpiryInputs ==
    { <<2025, 12>>, <<2026, 5>>, <<2026, 6>>, <<2026, 7>>, <<2026, 8>>,
      <<2027, 1>> }

Cards ==
    { [number |-> n, cvv |-> c, year |-> e[1], month |-> e[2]] :
        n \in CardNumbers, c \in CvvInputs, e \in ExpiryInputs }

\* time.Now(): the first or the last day of June 2026
NowInputs ==
    { [year |-> 2026, month |-> 6, day |-> 1, midnight |-> FALSE],
      [year |-> 2026, month |-> 6, day |-> 30, midnight |-> TRUE],
      [year |-> 2026, month |-> 6, day |-> 30, midnight |-> FALSE] }

TransactionIds == {"uuid-1", "uuid-2"}

InitPay ==
    /\ fin \in [card : Cards, now : NowInputs]
    /\ fout = NoOut
    /\ IdleSum
    /\ IdleOrder

DoCharge ==
    /\ fout = NoOut
    /\ \E uuid \in TransactionIds :
         fout' = Charge(fin.card, fin.now, uuid)
    /\ UNCHANGED <<fin, sl, sr, sres, orderVars>>

NextPay == DoCharge

SpecPay == InitPay /\ [][NextPay]_vars

----------------------------------------------------------------------------
(* Properties of PlaceOrder *)

Called(op) == \E k \in 1..Len(calls) : calls[k].op = op
Failed(op) == \E k \in 1..Len(calls) : calls[k].op = op /\ ~calls[k].ok
Succeeded(op) == \E k \in 1..Len(calls) : calls[k].op = op /\ calls[k].ok

\* the OrderResult PlaceOrder builds from its locals
CompleteOrder ==
    [orderId |-> "order-1",
     shippingTrackingId |-> shippingTrackingID,
     shippingCost |-> shippingCostLocalized,
     shippingAddress |-> req.address,
     items |-> orderItems]

\* C1: when Payment.Charge fails, PlaceOrder returns no response and an
\* error tagged "failed to charge card", and ShipOrder, EmptyCart and
\* SendOrderConfirmation are not called in the invocation.
C1_PaymentFailureAborts ==
    Failed("Charge") =>
        /\ pc = "done"
        /\ resp.nil
        /\ err.code = "Internal"
        /\ err.msg[1] = "failed to charge card"
        /\ ~Called("ShipOrder")
        /\ ~Called("EmptyCart")
        /\ ~Called("SendOrderConfirmation")

C1_Witness == Failed("Charge") /\ pc = "done" /\ Len(cartItems) > 0

\* C2: in every reachable state, ShipOrder has been called only if Charge
\* was called earlier in the invocation and returned success.
C2_ShipOnlyAfterCharge ==
    \A k \in 1..Len(calls) :
        calls[k].op = "ShipOrder" =>
            \E j \in 1..(k - 1) : calls[j].op = "Charge" /\ calls[j].ok

C2_Witness == Called("ShipOrder") /\ Succeeded("Charge")

\* C3: when ShipOrder fails after a successful Charge, PlaceOrder returns no
\* response and an error tagged "shipping error"; the failing ShipOrder is
\* the last collaborator call (no refund, no EmptyCart, no email) and the
\* payment collaborator was called exactly once.
C3_ShippingFailureNoCompensation ==
    Failed("ShipOrder") =>
        /\ Succeeded("Charge")
        /\ pc = "done"
        /\ resp.nil
        /\ err.code = "Unavailable"
        /\ err.msg[1] = "shipping error"
        /\ calls[Len(calls)].op = "ShipOrder"
        /\ Cardinality({ k \in 1..Len(calls) :
                           calls[k].op \in {"Charge", "Refund"} }) = 1
        /\ ~Called("EmptyCart")
        /\ ~Called("SendOrderConfirmation")

C3_Witness == Failed("ShipOrder") /\ Succeeded("Charge") /\ pc = "done"

\* C4: when EmptyCart fails after a successful charge and shipment,
\* PlaceOrder does not abort: it goes on to SendOrderConfirmation and
\* returns a response with the complete OrderResult and no error.
C4_EmptyCartFailureNotFatal ==
    Failed("EmptyCart") =>
        /\ Succeeded("Charge") /\ Succeeded("ShipOrder")
        /\ \/ pc = "sendOrderConfirmation"
           \/ /\ pc = "done"
              /\ Called("SendOrderConfirmation")
              /\ ~resp.nil
              /\ resp.order = CompleteOrder
              /\ err = NoErr

C4_Witness ==
    Failed("EmptyCart") /\ pc = "done" /\ Called("SendOrderConfirmation")

\* C5: when SendOrderConfirmation fails, PlaceOrder still returns, without
\* error, the OrderResult it built before the call (the one it returns when
\* the email succeeds); nothing else changes.
C5_EmailFailureNotFatal ==
    Failed("SendOrderConfirmation") =>
        /\ pc = "done"
        /\ ~resp.nil
        /\ err = NoErr
        /\ resp.order = orderResult
        /\ resp.order = CompleteOrder

C5_Witness ==
    Failed("SendOrderConfirmation") /\ pc = "done" /\ Len(orderItems) > 0

\* the collaborator calls of a complete invocation over a cart of n items
RECURSIVE ItemOps(_)
ItemOps(n) ==
    IF n = 0 THEN <<>>
    ELSE ItemOps(n - 1) \o << <<"GetProduct", n>>, <<"Convert", n>> >>

ExpectedOps(n) ==
    << <<"GetCart", 0>> >> \o ItemOps(n) \o
    << <<"GetQuote", 0>>, <<"Convert", 0>>, <<"Charge", 0>>,
       <<"ShipOrder", 0>>, <<"EmptyCart", 0>>,
       <<"SendOrderConfirmation", 0>> >>

InExpectedOrder ==
    /\ Len(calls) <= Len(ExpectedOps(Len(cartItems)))
    /\ \A k \in 1..Len(calls) :
         <<calls[k].op, calls[k].idx>> = ExpectedOps(Len(cartItems))[k]

ChargeAfterPricing ==
    Called("Charge") =>
        /\ Len(orderItems) = Len(cartItems)
        /\ \A i \in 1..Len(cartItems) :
             \E k \in 1..Len(calls) :
                 calls[k] = Call("Convert", i, TRUE)
        /\ \E k \in 1..Len(calls) : calls[k] = Call("Convert", 0, TRUE)

\* C6 as stated: the calls occur in the fixed order GetCart, (GetProduct,
\* Convert) per item, GetQuote, Convert, Charge, ShipOrder, EmptyCart,
\* SendOrderConfirmation, and every call starts only after the previous
\* one returned success.
C6_StrictOrderAllSuccess ==
    /\ InExpectedOrder
    /\ ChargeAfterPricing
    /\ \A k \in 2..Len(calls) : calls[k - 1].ok

\* C6 amended: the calls occur in that fixed order and every call starts
\* only after the previous one returned success, except that
\* SendOrderConfirmation starts after EmptyCart returned, whether EmptyCart
\* succeeded or failed; Charge is never called before every item is priced
\* and the shipping quote is localized.
C6_StrictOrder ==
    /\ InExpectedOrder
    /\ ChargeAfterPricing
    /\ \A k \in 2..Len(calls) :
         calls[k - 1].ok \/ calls[k - 1].op = "EmptyCart"

C6_Witness ==
    /\ pc = "done"
    /\ Len(cartItems) = 2
    /\ Called("SendOrderConfirmation")
    /\ Failed("EmptyCart")

FatalOps ==
    {"GetCart", "GetProduct", "Convert", "GetQuote", "Charge", "ShipOrder"}

\* C7: when a fatal collaborator call (GetCart, GetProduct, Convert,
\* GetQuote, Charge, ShipOrder) fails, it is the last call of the
\* invocation and PlaceOrder has returned an error and no response.
C7_FatalFailureAborts ==
    \A k \in 1..Len(calls) :
        (calls[k].op \in FatalOps /\ ~calls[k].ok) =>
            /\ k = Len(calls)
            /\ pc = "done"
            /\ resp.nil
            /\ resp.order = NoOrder
            /\ err # NoErr

C7_Witness ==
    /\ pc = "done"
    /\ calls # <<>>
    /\ calls[Len(calls)] = Call("Convert", 0, FALSE)
    /\ Len(orderItems) > 0

\* exact decimal arithmetic on <<whole units, nanos in 0..10^9-1>>
Canon(m) == << m.units + (m.nanos \div nanosMod), m.nanos % nanosMod >>

CanonAdd(a, b) ==
    << a[1] + b[1] + ((a[2] + b[2]) \div nanosMod),
       (a[2] + b[2]) % nanosMod >>

RECURSIVE CanonTimes(_, _)
CanonTimes(a, n) ==
    IF n = 0 THEN <<0, 0>> ELSE CanonAdd(CanonTimes(a, n - 1), a)

RECURSIVE ExactItems(_, _)
ExactItems(items, k) ==
    IF k = 0 THEN <<0, 0>>
    ELSE CanonAdd(ExactItems(items, k - 1),
                  CanonTimes(Canon(items[k].cost), items[k].item.quantity))

ExactTotal ==
    CanonAdd(Canon(shippingCostLocalized),
             ExactItems(orderItems, Len(orderItems)))

ExampleOrder ==
    /\ orderItems = << [item |-> [productId |-> "A", quantity |-> 2],
                        cost |-> Money(10, 0, "USD")] >>
    /\ shippingCostLocalized = Money(8, 990000000, "USD")

\* C8: whenever Charge is called, the amount handed to it has the currency
\* of the request and its value equals the localized shipping cost plus,
\* for every item, its localized price times its quantity; for the cart
\* [{A, qty 2, 10.00 USD}] with shipping 8.99 USD the amount is units=28,
\* nanos=990000000.
C8_ChargedAmountIsExactTotal ==
    Called("Charge") =>
        /\ total.code = req.userCurrency
        /\ Canon(total) = ExactTotal
        /\ ExampleOrder => total = Money(28, 990000000, "USD")

C8_Witness ==
    /\ Called("Charge")
    /\ ExampleOrder
    /\ total = Money(28, 990000000, "USD")

----------------------------------------------------------------------------
(* Properties of Sum *)

SumDone == sres # NoSum

\* C9: for valid l and r with the same currency code, Sum succeeds and its
\* result is a valid Money (nanos in range, sign of nanos matching units).
C9_SumResultValid ==
    (SumDone /\ IsValid(sl) /\ IsValid(sr) /\ sl.code = sr.code) =>
        /\ sres.err = ErrNil
        /\ IsValid(sres.m)

\* C10 as stated: Sum on operands with different currency codes always
\* fails with ErrMismatchingCurrency, whatever the validity of l and r.
C10_MismatchAlwaysMismatchError ==
    (SumDone /\ sl.code # sr.code) => sres.err = ErrMismatchingCurrency

\* C10 amended: Sum on operands with different currency codes always fails
\* and returns the empty Money: with ErrMismatchingCurrency when both
\* operands are valid, with ErrInvalidValue when one of them is invalid.
C10_MismatchFails ==
    (SumDone /\ sl.code # sr.code) =>
        /\ sres.m = EmptyMoney
        /\ sres.err = IF IsValid(sl) /\ IsValid(sr)
                      THEN ErrMismatchingCurrency
                      ELSE ErrInvalidValue

C10_Witness ==
    /\ SumDone
    /\ sl.code # sr.code
    /\ ~IsValid(sl)
    /\ IsValid(sr)
    /\ sres.err = ErrInvalidValue

\* C11: Sum fails with ErrInvalidValue whenever l or r is invalid; on every
\* error of Sum the returned Money is the empty value, and the operands are
\* left as they were.
C11_InvalidOperandRejected ==
    SumDone =>
        /\ (~IsValid(sl) \/ ~IsValid(sr)) => sres.err = ErrInvalidValue
        /\ sres.err # ErrNil => sres.m = EmptyMoney
        /\ sl = fin[1] /\ sr = fin[2]

C11_Witness ==
    /\ SumDone
    /\ IsValid(sl)
    /\ ~IsValid(sr)
    /\ sl.code # sr.code
    /\ sres = [m |-> EmptyMoney, err |-> ErrInvalidValue]

\* C12: Sum is commutative: for valid a and b with the same currency code,
\* Sum(a, b) and Sum(b, a) have the same outcome (units, nanos, currency and
\* error).
C12_SumCommutative ==
    (SumDone /\ IsValid(sl) /\ IsValid(sr) /\ sl.code = sr.code) =>
        sres = Sum(sr, sl)

C12_Witness ==
    /\ SumDone
    /\ IsValid(sl) /\ IsValid(sr) /\ sl.code = sr.code
    /\ sl.units # sr.units
    /\ sl.nanos # sr.nanos
    /\ sres.err = ErrNil


FunDone == fout # NoOut

\* C13: Sum is associative: for valid a, b, c with the same currency code,
\* Sum(a, Sum(b, c)) and Sum(Sum(a, b), c) both succeed and return the same
\* Money, also when an intermediate sum has units 0 and non-zero nanos.
C13_SumAssociative ==
    (FunDone /\ fin.a.code = fin.b.code /\ fin.b.code = fin.c.code) =>
        /\ fout.left.err = ErrNil
        /\ fout.right.err = ErrNil
        /\ fout.left.m = fout.right.m

\* acc after k applications of acc, err = Sum(acc, m), or the first error
RECURSIVE RepeatSum(_, _, _)
RepeatSum(acc, m, k) ==
    IF k = 0 THEN [m |-> acc, err |-> ErrNil]
    ELSE LET s == Sum(acc, m)
         IN  IF s.err # ErrNil THEN s ELSE RepeatSum(s.m, m, k - 1)

\* C14: for valid m and n >= 1, MultiplySlow(m, n) is the result of
\* starting from m and applying Sum(acc, m) n-1 times, in the currency of
\* m (a failing Sum of that chain surfaces as the panic of Must);
\* MultiplySlow(m, 1) is m, and m is left as it was.
C14_MultiplySlowIsRepeatedSum ==
    (FunDone /\ IsValid(fin.m) /\ fin.n >= 1) =>
        LET chain == RepeatSum(fin.m, fin.m, fin.n - 1)
        IN  /\ fout.panic = (chain.err # ErrNil)
            /\ ~fout.panic => /\ fout.m = chain.m
                              /\ fout.m.code = fin.m.code
            /\ fin.n = 1 => (~fout.panic /\ fout.m = fin.m)

C14_Witness ==
    /\ FunDone
    /\ fin.m = Money(1, 600000000, "USD")
    /\ fin.n = 3
    /\ fout = [panic |-> FALSE, m |-> Money(4, 800000000, "USD")]

\* C15: IsPositive and IsNegative are true only of valid Money: for every
\* invalid m (nanos out of range or sign mismatch) both are false, also
\* when units is 0 and nanos is out of range.
C15_SignPredicatesRequireValidity ==
    (FunDone /\ ~fout.valid) => (~fout.positive /\ ~fout.negative)

\* C16 as stated: Sum never returns a successful result when the currency
\* code of an operand is empty, also when both codes are empty.
C16_SumRequiresCurrencyCode ==
    (SumDone /\ (sl.code = "" \/ sr.code = "")) => sres.err # ErrNil

\* C16 amended: when exactly one operand has an empty currency code Sum
\* fails; when both codes are empty Sum treats them as matching: it
\* succeeds exactly when both operands are valid, and the result has an
\* empty currency code (AreSameCurrency(l, r) is false there, but Sum does
\* not use it).
C16_EmptyCurrencyCode ==
    (SumDone /\ (sl.code = "" \/ sr.code = "")) =>
        /\ sl.code # sr.code => sres.err # ErrNil
        /\ sl.code = sr.code =>
             /\ ~AreSameCurrency(sl, sr)
             /\ (sres.err = ErrNil) = (IsValid(sl) /\ IsValid(sr))
             /\ sres.err = ErrNil => sres.m.code = ""

C16_Witness ==
    /\ SumDone
    /\ sl.code = "" /\ sr.code = ""
    /\ sl.units = 1 /\ sr.units = 1
    /\ sres.err = ErrNil
    /\ sres.m.code = ""

\* the value uNum/den units + nNum/den nanos as whole units and a
\* remainder in 0 .. den*10^9 - 1 (nanos times den)
ExactCarry(a) ==
    LET n1 == a.nNum + (a.uNum % a.den) * fractionSize
    IN  << (a.uNum \div a.den) + (n1 \div (a.den * fractionSize)),
           n1 % (a.den * fractionSize) >>

CarryValuePreserved ==
    LET e == ExactCarry(fin)
        c == Canon(fout)
        d == fin.den * c[2] - e[2]
    IN  c[1] = e[1] /\ -fin.den <= d /\ d <= fin.den

\* C17: for every input, positive, zero or negative, carry returns nanos
\* in [-999999999, 999999999] whose sign matches the units (or one is
\* zero), and the value units*10^9+nanos of the result equals that of the
\* input up to one nano of truncation.
C17_CarryNormalizes ==
    FunDone =>
        /\ validNanos(fout.nanos)
        /\ signMatches(fout)
        /\ CarryValuePreserved

\* the same for non-negative units and nanos
CarryNonNegativeOk ==
    (FunDone /\ fin.uNum >= 0 /\ fin.nNum >= 0) =>
        /\ validNanos(fout.nanos)
        /\ signMatches(fout)
        /\ CarryValuePreserved

ConvertUnsupported ==
    fin.from.code \notin {"EUR", "USD"} \/ fin.toCode \notin {"EUR", "USD"}

\* C18: Convert fails when the source or the target currency code is not
\* in the conversion table, and otherwise returns a Money in the target
\* currency; a failed Convert of an item price or of the shipping quote
\* makes PlaceOrder return an error and no response.
C18_ConvertUnsupportedCurrency ==
    FunDone =>
        /\ (fout.err # ErrNil) = ConvertUnsupported
        /\ fout.err = ErrNil => fout.m.code = fin.toCode
        /\ pc # "convertReturned" =>
             IF ConvertUnsupported
             THEN /\ pc = "done"
                  /\ resp.nil
                  /\ err.code = "Internal"
                  /\ err.msg[1] = IF fin.site = "price"
                        THEN "failed to prepare order"
                        ELSE "failed to convert shipping cost to currency"
                  /\ orderItems = <<>>
                  /\ shippingCostLocalized = NoMoney
             ELSE /\ pc \in {"quoteShipping", "total"}
                  /\ err = NoErr

C18_Witness ==
    /\ pc = "done"
    /\ fin.site = "shipping"
    /\ fin.from = Money(8, 990000000, "USD")
    /\ fin.toCode = "XXX"
    /\ err.msg[1] = "failed to convert shipping cost to currency"

\* C19: every call PlaceOrder makes to a collaborator (cart, catalog,
\* currency, shipping, payment, email) carries the context of the caller
\* of PlaceOrder.
C19_CallerContextPropagated ==
    \A k \in 1..Len(calls) : calls[k].ctx = "ctx"

\* C20: for a card number with at least 4 characters after the hyphens are
\* stripped, validation settles on the network Visa when the first
\* character is '4' and on MasterCard when it is '5', and fails with
\* UnacceptedCreditCardErr for any other first character, whatever the CVV
\* and the expiration are.
C20_CardNetworkByFirstDigit ==
    (FunDone /\ ~fout.panic /\ Len(StripHyphens(fin.card.number)) >= 4) =>
        LET first == StripHyphens(fin.card.number)[1]
            v == fout.validated
        IN  /\ first = "4" =>
                 v.company = "Visa" /\ v.err # UnacceptedCreditCardErr
            /\ first = "5" =>
                 v.company = "MasterCard" /\ v.err # UnacceptedCreditCardErr
            /\ first \notin {"4", "5"} =>
                 /\ v.err = UnacceptedCreditCardErr
                 /\ fout.err = UnacceptedCreditCardErr
                 /\ fout.txid = ""

C20_Witness ==
    /\ FunDone
    /\ fin.card.number = <<"6", "-", "4", "4", "4">>
    /\ fin.card.cvv = 99
    /\ fin.card.year = 2025
    /\ fout.err = UnacceptedCreditCardErr

\* C21: Charge called with a card number of fewer than 4 digits returns
\* InvalidCreditCardErr to the caller, does not crash, and produces no
\* transaction id.
C21_ShortNumberIsInvalidCard ==
    (FunDone /\ Len(StripHyphens(fin.card.number)) < 4) =>
        /\ ~fout.panic
        /\ fout.err = InvalidCreditCardErr
        /\ fout.txid = ""

ExpiresBeforeThisMonth ==
    \/ fin.card.year < fin.now.year
    \/ fin.card.year = fin.now.year /\ fin.card.month < fin.now.month

\* the card passes the checks made before the expiration is read
PassesNumberAndCvv ==
    /\ Len(StripHyphens(fin.card.number)) >= 4
    /\ StripHyphens(fin.card.number)[1] \in {"4", "5"}
    /\ 100 <= fin.card.cvv
    /\ fin.card.cvv <= 9999

\* C22: validation fails with ExpiredCreditCardErr exactly when the
\* expiration (year, month) of the card is strictly before the (year, month)
\* of the current date; a card expiring in the current month or later is
\* never rejected as expired, whatever the day of the month.
C22_ExpiredIffBeforeCurrentMonth ==
    (FunDone /\ ~fout.panic) =>
        /\ fout.err = ExpiredCreditCardErr => ExpiresBeforeThisMonth
        /\ (PassesNumberAndCvv /\ ExpiresBeforeThisMonth) =>
               fout.err = ExpiredCreditCardErr

PassesNumber ==
    /\ Len(StripHyphens(fin.card.number)) >= 4
    /\ StripHyphens(fin.card.number)[1] \in {"4", "5"}

\* C23: for a card whose number is accepted, validation fails with
\* InvalidCreditCardErr when the CVV is below 100 or above 9999 and does
\* not reject any CVV in [100, 9999]; when all checks pass, Charge returns
\* no error and the non-empty transaction id just generated.
C23_CvvRangeAndTransactionId ==
    (FunDone /\ ~fout.panic /\ PassesNumber) =>
        /\ (fin.card.cvv < 100 \/ fin.card.cvv > 9999) =>
              fout.err = InvalidCreditCardErr /\ fout.txid = ""
        /\ (100 <= fin.card.cvv /\ fin.card.cvv <= 9999) =>
              fout.err \in {ErrNil, ExpiredCreditCardErr}
        /\ fout.err = ErrNil =>
              /\ fout.txid \in TransactionIds
              /\ fout.txid # ""
        /\ (PassesNumberAndCvv
            /\ ~Before(ExpiryDate(fin.card.year, fin.card.month), fin.now)) =>
              fout.err = ErrNil

C23_Witness ==
    /\ FunDone
    /\ fin.card.number = <<"5", "5", "-", "5", "5">>
    /\ fin.card.cvv = 9999
    /\ fin.card.year = 2027
    /\ fout.err = ErrNil
    /\ fout.txid = "uuid-2"

BadTerm(m) == ~IsValid(m) \/ m.code # req.userCurrency

\* the conversions are over: every term of the total is known
TermsKnown ==
    pc \in {"total", "panic", "chargeCard", "shipOrder", "emptyUserCart",
            "sendOrderConfirmation"}
    \/ (pc = "done" /\ Called("Charge"))

AnyBadTerm ==
    \/ BadTerm(shippingCostLocalized)
    \/ \E k \in 1..Len(orderItems) : BadTerm(orderItems[k].cost)

\* C24: when the localized shipping cost or the localized price of any item
\* is an invalid Money or has a currency code other than the user currency
\* of the request, PlaceOrder panics while it computes the total and
\* Payment.Charge is not called.
C24_BadTermPanicsBeforeCharge ==
    (TermsKnown /\ AnyBadTerm) =>
        /\ pc \in {"total", "panic"}
        /\ ~Called("Charge")
        /\ total = NoMoney

C24_Witness ==
    /\ pc = "panic"
    /\ Len(orderItems) = 2
    /\ ~BadTerm(shippingCostLocalized)
    /\ ~BadTerm(orderItems[1].cost)
    /\ orderItems[2].cost = Money(1, 0, "")
    /\ ~Called("Charge")

PricingOps == {"GetProduct", "Convert"}

\* a catalog lookup or a price conversion of a cart item has failed
PricingCallFailed ==
    \E k \in 1..Len(calls) :
        calls[k].op \in PricingOps /\ calls[k].idx >= 1 /\ ~calls[k].ok

\* C25: when the catalog lookup or the currency conversion fails for cart
\* item i, PlaceOrder aborts with the error "failed to prepare order" that
\* names the product id of item i, item i is the first failing item, and
\* no GetProduct or Convert call is made for a later item.
C25_PricingFailureNamesItem ==
    PricingCallFailed =>
        LET i == Len(orderItems) + 1
            last == calls[Len(calls)]
        IN  /\ pc = "done"
            /\ resp.nil
            /\ err.code = "Internal"
            /\ err.msg[1] = "failed to prepare order"
            /\ last.op \in PricingOps /\ last.idx = i /\ ~last.ok
            /\ err.msg[3] = cartItems[i].productId
            /\ \A k \in 1..Len(calls) :
                 calls[k].op \in PricingOps =>
                     /\ calls[k].idx <= i
                     /\ (calls[k].idx < i => calls[k].ok)

C25_Witness ==
    /\ pc = "done"
    /\ Len(cartItems) = 2
    /\ cartItems[1].productId # cartItems[2].productId
    /\ Len(orderItems) = 1
    /\ calls[Len(calls)] = Call("Convert", 2, FALSE)
    /\ err.msg[3] = cartItems[2].productId

\* the tags under which PlaceOrder reports the failure of a call
StepTags(call) ==
    IF call.op = "GetCart" THEN {"cart failure"}
    ELSE IF call.op = "GetProduct" THEN {"failed to prepare order"}
    ELSE IF call.op = "Convert" /\ call.idx >= 1
         THEN {"failed to prepare order"}
    ELSE IF call.op \in {"GetQuote", "Convert"}
         THEN {"shipping quote failure",
               "failed to convert shipping cost to currency"}
    ELSE IF call.op = "Charge" THEN {"failed to charge card"}
    ELSE IF call.op = "ShipOrder" THEN {"shipping error"}
    ELSE {}

\* C26: every fatal error PlaceOrder returns after a collaborator failed
\* is tagged with the failing step (cart, pricing, shipping quote,
\* payment, shipment) and carries the cause the collaborator reported,
\* also for catalog and conversion failures in item pricing and for a
\* failed conversion of the shipping quote.
C26_FatalErrorCarriesStepAndCause ==
    (pc = "done" /\ err # NoErr /\ Len(calls) > 0) =>
        LET last == calls[Len(calls)]
        IN  /\ ~last.ok
            /\ err.msg[1] \in StepTags(last)
            /\ \E j \in 1..Len(err.msg) : err.msg[j] = Cause(last.op)

\* C27: a completed PlaceOrder returns either a response holding the
\* complete OrderResult and no error, or an error and no response, never
\* both and never neither; it returns an OrderResult exactly when both
\* Payment.Charge and Shipping.ShipOrder succeeded.
C27_ResponseXorError ==
    pc = "done" =>
        /\ resp.nil = (err # NoErr)
        /\ ~resp.nil =>
             /\ resp.order = CompleteOrder
             /\ resp.order.orderId # ""
             /\ Len(resp.order.items) = Len(cartItems)
        /\ resp.nil => resp.order = NoOrder
        /\ ~resp.nil = (Succeeded("Charge") /\ Succeeded("ShipOrder"))

C27_Witness ==
    /\ pc = "done"
    /\ Succeeded("Charge")
    /\ Failed("ShipOrder")
    /\ resp.nil
    /\ err.code = "Unavailable"

\* the Money the currency service answered for cart item i (0: for the
\* shipping quote)
Converted(i) ==
    LET k == CHOOSE k \in 1..Len(fout) : fout[k].idx = i
    IN  fout[k].m

\* C28: the OrderResult sent to Email.SendOrderConfirmation and returned on
\* success holds the tracking id ShipOrder returned, the localized shipping
\* cost, the address of the request, and one OrderItem per cart item, in
\* the order Cart.GetCart returned them, each with its own converted price.
C28_OrderResultContents ==
    (pc = "sendOrderConfirmation" \/ (pc = "done" /\ ~resp.nil)) =>
        /\ pc = "done" => resp.order = orderResult
        /\ orderResult.shippingTrackingId = shippingTrackingID
        /\ orderResult.shippingTrackingId \in TrackingIds
        /\ orderResult.shippingCost = Converted(0)
        /\ orderResult.shippingAddress = req.address
        /\ Len(orderResult.items) = Len(cartItems)
        /\ \A k \in 1..Len(cartItems) :
             /\ orderResult.items[k].item = cartItems[k]
             /\ orderResult.items[k].cost = Converted(k)

C28_Witness ==
    /\ pc = "done"
    /\ ~resp.nil
    /\ Len(resp.order.items) = 2
    /\ resp.order.items[1].item # resp.order.items[2].item
    /\ resp.order.items[1].cost # resp.order.items[2].cost
    /\ resp.order.shippingTrackingId = "TR-2"

\* C29: in every OrderResult PlaceOrder returns, the cost of every
\* OrderItem and the shipping cost have the user currency of the request
\* as currency code, whatever Money the currency service answered.
C29_OrderResultInUserCurrency ==
    (pc = "done" /\ ~resp.nil) =>
        /\ resp.order.shippingCost.code = req.userCurrency
        /\ \A k \in 1..Len(resp.order.items) :
             resp.order.items[k].cost.code = req.userCurrency
        /\ total.code = req.userCurrency

C29_Witness ==
    /\ pc = "done"
    /\ ~resp.nil
    /\ req.userCurrency = "EUR"
    /\ Len(resp.order.items) = 2
    /\ resp.order.items[2].cost = Money(1, 0, "EUR")
    /\ \E k \in 1..Len(calls) : calls[k].op = "Convert" /\ calls[k].idx = 2

\* the k-th collaborator call of an invocation running alone on a cart of
\* n items
PlannedCall(n, k) ==
    IF k = 1 THEN <<"GetCart", 0>>
    ELSE IF k <= 2 * n + 1
         THEN <<IF k % 2 = 0 THEN "GetProduct" ELSE "Convert", k \div 2>>
    ELSE IF k = 2 * n + 2 THEN <<"GetQuote", 0>>
    ELSE IF k = 2 * n + 3 THEN <<"Convert", 0>>
    ELSE IF k = 2 * n + 4 THEN <<"Charge", 0>>
    ELSE IF k = 2 * n + 5 THEN <<"ShipOrder", 0>>
    ELSE IF k = 2 * n + 6 THEN <<"EmptyCart", 0>>
    ELSE <<"SendOrderConfirmation", 0>>

\* the total invocation p computes from its own terms
OwnTotal(p) ==
    ComputeTotal(req[p].userCurrency, shippingCostLocalized[p],
                 orderItems[p]).m

RunsAsAlone(p) ==
    /\ cartItems[p] \in {<<>>, CartOf(UserOf(p))}
    /\ Len(calls[p]) <= 2 * Len(cartItems[p]) + 7
    /\ \A k \in 1..Len(calls[p]) :
         /\ <<calls[p][k].op, calls[p][k].idx>> =
                PlannedCall(Len(cartItems[p]), k)
         /\ (k < Len(calls[p]) /\ calls[p][k].op # "EmptyCart") =>
                calls[p][k].ok
         /\ calls[p][k].op = "Charge" => calls[p][k].amount = OwnTotal(p)
    /\ \A k \in 1..Len(orderItems[p]) :
         /\ orderItems[p][k].item = CartOf(UserOf(p))[k]
         /\ orderItems[p][k].cost.code = CurrencyOf(p)
    /\ total[p] # NoMoney => total[p] = OwnTotal(p)
    /\ (pc[p] = "done" /\ ~resp[p].nil) =>
         /\ resp[p].order.orderId = "order-" \o UserOf(p)
         /\ resp[p].order.shippingTrackingId = "TR-" \o UserOf(p)
         /\ resp[p].order.shippingAddress = "addr-" \o UserOf(p)
         /\ resp[p].order.shippingCost = shippingCostLocalized[p]
         /\ resp[p].order.items = orderItems[p]
         /\ Len(orderItems[p]) = Len(CartOf(UserOf(p)))
    /\ (pc[p] = "done" /\ resp[p].nil) => err[p] # NoErr

\* C30: concurrent PlaceOrder invocations of different users share no
\* mutable state of the orchestrator: however they interleave, the
\* collaborator calls, the total and the result of each are those of the
\* invocation running alone on its own cart.
C30_InvocationsIndependent ==
    \A p \in Procs : RunsAsAlone(p)

C30_Witness ==
    /\ pc[1] = "done" /\ ~resp[1].nil
    /\ pc[2] = "done" /\ ~resp[2].nil
    /\ total[1] # total[2]
    /\ total[1].code = "USD" /\ total[2].code = "EUR"
    /\ Len(calls[2]) = 11

\* C31: whenever PlaceOrder calls Payment.Charge, the amount (total) is a
\* valid Money in the user currency, also for an empty cart and for a
\* shipping cost or a running total with units 0 and non-zero nanos.
C31_ChargedAmountValid ==
    Called("Charge") =>
        /\ IsValid(total)
        /\ total.code = req.userCurrency

\* C32: one PlaceOrder invocation retries nothing: GetCart, GetQuote,
\* Charge, ShipOrder, EmptyCart and SendOrderConfirmation are called at
\* most once, GetProduct and the price Convert at most once per cart item,
\* the Convert of the shipping quote at most once.
C32_NoRetries ==
    /\ \A j, k \in 1..Len(calls) :
         (j # k) => <<calls[j].op, calls[j].idx>> # <<calls[k].op, calls[k].idx>>
    /\ \A k \in 1..Len(calls) :
         /\ calls[k].op \in {"GetProduct"} => calls[k].idx \in 1..Len(cartItems)
         /\ calls[k].op = "Convert" => calls[k].idx \in 0..Len(cartItems)
         /\ calls[k].op \notin {"GetProduct", "Convert"} => calls[k].idx = 0

C32_Witness ==
    /\ pc = "done"
    /\ Len(cartItems) = 2
    /\ cartItems[1] = cartItems[2]
    /\ Len(calls) = 11
    /\ Succeeded("Charge")
    /\ Called("SendOrderConfirmation")

\* C33: PlaceOrder changes the cart of the user only by the EmptyCart it
\* issues after ShipOrder has succeeded; on every path on which it returns
\* an error (payment and shipment failure included) the cart is as it was.
C33_ErrorLeavesCartUnchanged ==
    [][ /\ cart' # cart =>
             /\ pc = "emptyUserCart"
             /\ Succeeded("ShipOrder")
             /\ cart' = <<>>
        /\ (pc' = "done" /\ err' # NoErr) =>
             /\ cart' = cart
             /\ ~Called("EmptyCart")
             /\ Succeeded("GetCart") => cart' = cartItems' ]_vars

C33_Witness ==
    /\ pc = "done"
    /\ Failed("ShipOrder")
    /\ Succeeded("Charge")
    /\ Len(cart) = 2
    /\ cart = cartItems
    /\ err # NoErr

AllAdded == \A a \in Adders : pc[a] = "added"

\* the successful writes of AddItem, in the order they were made
SetsDone ==
    SelectSeq(fout, LAMBDA c : c.op = "AddItem.Set" /\ c.ok)

\* the items of the successful AddItem calls, in the order of their writes
ItemsSet == [k \in 1..Len(SetsDone) |-> req[SetsDone[k].by].item]

\* no AddItem call ran while another was between its read and its write
SequentialAdds ==
    \A k \in 1..Len(fout) :
        fout[k].op = "AddItem.Set" =>
            /\ k > 1
            /\ fout[k - 1].op = "AddItem.Get"
            /\ fout[k - 1].by = fout[k].by

\* sequential AddItem calls append in order, duplicates kept, and a failed
\* AddItem changes nothing
SequentialAddsAppend ==
    (AllAdded /\ SequentialAdds) => GetCart("u1") = orderItems \o ItemsSet

\* C36: AddItem loses no update: after concurrent AddItem calls of one
\* user that all succeeded, GetCart returns every added item; sequential
\* calls append in insertion order without merging duplicates; a failed
\* AddItem leaves the stored cart unchanged.
C36_AddItemLosesNoUpdate ==
    AllAdded =>
        /\ Len(GetCart("u1")) = Len(orderItems) + Len(ItemsSet)
        /\ \A k \in 1..Len(ItemsSet) :
             \E j \in 1..Len(GetCart("u1")) : GetCart("u1")[j] = ItemsSet[k]
        /\ SequentialAdds => GetCart("u1") = orderItems \o ItemsSet

\* invocation p has charged the card and shipped the items it read
ChargedAndShipped(p) ==
    /\ \E k \in 1..Len(calls[p]) :
         calls[p][k].op = "Charge" /\ calls[p][k].ok
    /\ \E k \in 1..Len(calls[p]) :
         calls[p][k].op = "ShipOrder" /\ calls[p][k].ok

\* C34: a cart content is charged and shipped at most once: of two
\* concurrent PlaceOrder invocations of the same user over the same cart,
\* at most one charges the card and ships the items.
C34_CartChargedAtMostOnce ==
    \A p, q \in Procs :
        (p # q /\ ChargedAndShipped(p) /\ ChargedAndShipped(q)) =>
            \/ cartItems[p] = <<>>
            \/ cartItems[p] # cartItems[q]

Holds(items, it) == \E k \in 1..Len(items) : items[k] = it

\* C35: the EmptyCart at the end of a successful PlaceOrder removes only
\* items of the order: an item a concurrent AddItem put into the cart of
\* the same user between the GetCart and the EmptyCart of the invocation
\* is still in the cart afterwards.
C35_EmptyCartKeepsLaterItems ==
    [][ \A p \in Procs :
          ( /\ pc[p] = "emptyUserCart"
            /\ pc'[p] = "sendOrderConfirmation"
            /\ pc[Adder] = "added"
            /\ err[Adder] = ErrNil
            /\ ~Holds(cartItems[p], ItemAddedBeside)
            /\ Holds(cart[Shopper], ItemAddedBeside) )
          => Holds(cart'[Shopper], ItemAddedBeside) ]_vars

\* the int32 nanos of Sum's normalisation leaves the range of int32
SumNanosOverflows(units, nanos) ==
    /\ ~((units = 0 /\ nanos = 0) \/ (units > 0 /\ nanos >= 0)
           \/ (units < 0 /\ nanos <= 0))
    /\ IF units > 0 THEN nanos > MaxInt32 - nanosMod
                    ELSE nanos < MinInt32 + nanosMod

\* C37: Sum preserves value: for valid l and r of the same currency the
\* result has units*10^9 + nanos equal to the sum of the operands' values,
\* and the 32-bit computation of nanos never overflows, also when both
\* operands have units 0 and negative nanos.
C37_SumPreservesValue ==
    (SumDone /\ IsValid(sl) /\ IsValid(sr) /\ sl.code = sr.code) =>
        /\ sres.err = ErrNil
        /\ ~SumNanosOverflows(sl.units + sr.units, sl.nanos + sr.nanos)
        /\ Canon(sres.m) = CanonAdd(Canon(sl), Canon(sr))

\* without that overflow the value is preserved
SumValueKeptUnlessOverflow ==
    (SumDone /\ IsValid(sl) /\ IsValid(sr) /\ sl.code = sr.code
       /\ ~SumNanosOverflows(sl.units + sr.units, sl.nanos + sr.nanos)) =>
        Canon(sres.m) = CanonAdd(Canon(sl), Canon(sr))

\* C38: MultiplySlow(m, 0) returns m unchanged, as MultiplySlow(m, 1) does,
\* and not a zero amount, so an order item of quantity 0 adds its unit
\* price once to the total; for n <= 1 MultiplySlow does not check the
\* validity of m.
C38_MultiplyByZeroIsOnce ==
    /\ (FunDone /\ fin.n <= 1) =>
          /\ ~fout.panic
          /\ fout.m = fin.m
    /\ (pc # "idle" /\ fin.n = 0) =>
          IF IsValid(fin.m)
          THEN /\ pc = "summed"
               /\ Canon(total) = Canon(fin.m)
               /\ total.code = fin.m.code
          ELSE pc = "panic"

C38_Witness ==
    /\ FunDone
    /\ pc = "summed"
    /\ fin.n = 0
    /\ fin.m = Money(1, 600000000, "USD")
    /\ fout = [panic |-> FALSE, m |-> Money(1, 600000000, "USD")]
    /\ total = Money(1, 600000000, "USD")

\* C39: every PlaceOrder invocation eventually finishes, with an
\* OrderResult or with a failure (an error returned, or the panic of Must),
\* provided every collaborator call returns; the pricing loop and the loop
\* of MultiplySlow terminate for every cart and every quantity.
C39_PlaceOrderTerminates ==
    <>(pc \in {"done", "panic"})

C39_Witness ==
    /\ pc = "done"
    /\ ~resp.nil
    /\ Len(cartItems) = 2
    /\ cartItems[1].quantity = 2
    /\ cartItems[2].quantity = 0

====
